---- MODULE Spec2Model ----
(***************************************************************************)
(* The Coze adapter's streaming normalizer (CozeAdapter.make_stream_request*)
(* and its helpers) and the adapter manager's two entry points             *)
(* (AdapterManager.process_request / process_stream_request).              *)
(*                                                                         *)
(* Upstream text is a sequence of atoms.  An atom is a piece of the real   *)
(* text that the code never looks inside of separately: the prefixes       *)
(* "data:" and "event:", a blank " ", the newline "\n", an event name and  *)
(* whole JSON values.  Concatenating the atoms of a text gives the SSE     *)
(* text the upstream sends; a fragment boundary may fall between any two   *)
(* atoms.                                                                  *)
(***************************************************************************)
EXTENDS Integers, Sequences, FiniteSets, TLC

VARIABLES
    call,               \* who runs: "direct" | "stream" | "request" | "fallback" (process_stream_request
                        \* with an adapter that has no make_stream_request), "recovery" (as "direct",
                        \* on a stream of the records that carry ids), or a caller of one function
    pc,                 \* position of the running coroutine
    adapter,            \* AdapterManager._current_adapter
    endpoint,           \* the endpoint argument
    request,            \* the openai_request argument
    status,             \* response.status_code of the upstream call (0: no response yet)
    json,               \* platform_response["json"] of a non-streaming call
    text,               \* the body the upstream has sent on the stream so far
    buffer,             \* make_stream_request: buffer
    conversation_id,    \* make_stream_request: conversation_id
    chat_id,            \* make_stream_request: chat_id
    has_yielded_start,  \* make_stream_request: has_yielded_start
    current_event,      \* make_stream_request: current_event
    held_result,        \* make_stream_request: result, while the generator is suspended at the
                        \* yield of the start chunk (line 307); NoChunk otherwise
    out,                \* what the caller has received: the chunks yielded, or the payload returned
    escaped,            \* the exception that propagated to the caller, or None
    fault,              \* the exception caught by the call's except clauses, or None: "timeout"
                        \* (httpx.TimeoutException), "error" (another transport exception), "line"
                        \* (processing a line raised), "transform_request", "transform_response"
    fetched,            \* the recovery fetch: the outcome of each message-list endpoint queried, in order
    transformed,        \* whether transform_response was applied to the upstream body
    config,             \* AdapterManager._current_adapter.config (None without an adapter)
    op,                 \* the function a caller of a single function runs, or None
    arg,                \* its argument
    ret,                \* what it returned (or the exception it raised), None before it ran
    instance,           \* which object AdapterManager._current_adapter is: adapters are numbered
                        \* in the order get_adapter constructed them, 0 stands for None
    bot_id,             \* self.bot_id of each adapter object
    tasks,              \* the requests in flight on the manager, when several run at once
    proxies             \* the AdapterProxy objects whose make_request is running, outermost first

vars == <<call, pc, adapter, endpoint, request, status, json, text, buffer,
          conversation_id, chat_id, has_yielded_start, current_event, held_result,
          out, escaped, fault, fetched, transformed, config, op, arg, ret, instance, bot_id, tasks,
          proxies>>

-----------------------------------------------------------------------------
(* Bounds of the model *)

\* the most lines the body of a 2xx response has
MaxLines == 3
\* the most lines the body of a 3xx response has
MaxRedirectLines == 1
\* the most atoms one fragment of aiter_text carries
MaxFrag == 3
\* the most adapter objects the registry constructs while their bot ids are followed
MaxInstances == 2
\* the most data records of a stream that is followed record by record
MaxRecords == 3
\* the most AdapterProxy.make_request calls nested in one another before the
\* interpreter's recursion limit is reached
MaxDepth == 3

-----------------------------------------------------------------------------
(* Values *)

None == "None"
\* a key that a JSON object does not have
NoKey == "<no key>"

\* the truth of a value: None, the value of a key that is absent and the empty
\* string are false
Truthy(v) == v \notin {None, NoKey, ""}

(* A yielded item.  kind: "start" (delta.role = assistant), "delta" (empty   *)
(* delta, finish_reason null), "content" (delta.content = text), "stop"     *)
(* (finish_reason = stop), "response" (a chat.completion whose message      *)
(* content is text), "error" ({"error": {message, type, code}}).  wire is   *)
(* the Python type of the item: "str" for an f"data: {json.dumps(..)}"      *)
(* string, "dict" for a dict.  code holds a string code, http an integer    *)
(* one (0 when the code is a string).                                       *)
Item(kind, wire, id, txt, type, code, http) ==
    [kind |-> kind, wire |-> wire, id |-> id, text |-> txt, type |-> type, code |-> code, http |-> http]

Chunk(kind, id, txt) == Item(kind, "str", id, txt, "", "", 0)

ErrorPayload(wire, type, code, http) == Item("error", wire, "", "", type, code, http)

\* the value None where a chunk is expected
NoChunk == Item("None", "", "", "", "", "", 0)

-----------------------------------------------------------------------------
(* JSON values the upstream may send as the payload of a record *)

JInProgress == "{\"status\":\"in_progress\"}"
JCompleted == "{\"status\":\"completed\"}"
JFailed == "{\"status\":\"failed\"}"
JCreated == "{\"conversation_id\":\"c1\",\"id\":\"k1\",\"status\":\"created\"}"
\* records that carry one of the two ids, or an id that is empty
JConversation == "{\"conversation_id\":\"c1\",\"status\":\"created\"}"
JChat == "{\"id\":\"k1\",\"status\":\"created\"}"
JEmptyId == "{\"conversation_id\":\"c1\",\"id\":\"\",\"status\":\"created\"}"
JMessage == "{\"message\":{\"content\":\"hi\"}}"
JNull == "null"
JGarbage == "{oops"

JsonObject(st, cid, id, hasmsg, content) ==
    [type |-> "object", status |-> st, conversation_id |-> cid, id |-> id,
     has_message |-> hasmsg, content |-> content]

JsonOther(type) ==
    [type |-> type, status |-> "", conversation_id |-> NoKey, id |-> NoKey,
     has_message |-> FALSE, content |-> ""]

\* json.loads: type "invalid" stands for JSONDecodeError
json_loads(s) ==
    IF Len(s) # 1 THEN JsonOther("invalid")
    ELSE CASE s[1] = JInProgress -> JsonObject("in_progress", NoKey, NoKey, FALSE, "")
           [] s[1] = JCompleted  -> JsonObject("completed", NoKey, NoKey, FALSE, "")
           [] s[1] = JFailed     -> JsonObject("failed", NoKey, NoKey, FALSE, "")
           [] s[1] = JCreated    -> JsonObject("created", "c1", "k1", FALSE, "")
           [] s[1] = JConversation -> JsonObject("created", "c1", NoKey, FALSE, "")
           [] s[1] = JChat       -> JsonObject("created", NoKey, "k1", FALSE, "")
           [] s[1] = JEmptyId    -> JsonObject("created", "c1", "", FALSE, "")
           [] s[1] = JMessage    -> JsonObject("", NoKey, NoKey, TRUE, "hi")
           [] s[1] = JNull       -> JsonOther("null")
           [] OTHER              -> JsonOther("invalid")

-----------------------------------------------------------------------------
(* Lines *)

IsSpace(a) == a \in {" ", "\r", "\t"}

RECURSIVE LStrip(_)
LStrip(s) == IF s # <<>> /\ IsSpace(Head(s)) THEN LStrip(Tail(s)) ELSE s

RECURSIVE RStrip(_)
RStrip(s) == IF s # <<>> /\ IsSpace(s[Len(s)]) THEN RStrip(SubSeq(s, 1, Len(s) - 1)) ELSE s

\* str.strip()
Strip(s) == RStrip(LStrip(s))

\* '\n' in buffer
HasNewline(s) == \E i \in 1..Len(s) : s[i] = "\n"

FirstNewline(s) == CHOOSE i \in 1..Len(s) : s[i] = "\n" /\ \A j \in 1..(i - 1) : s[j] # "\n"

-----------------------------------------------------------------------------
(* CozeAdapter._transform_coze_stream_data *)

ChunkDict(kind, id, txt) == Item(kind, "dict", id, txt, "", "", 0)

\* f"data: {json.dumps(chunk)}"
SSE(chunk) == [chunk EXCEPT !.wire = "str"]

transform_coze_stream_data_no_stop(data) ==
    IF data.type # "object" THEN NoChunk
    ELSE LET conv == IF data.conversation_id = NoKey THEN "unknown" ELSE data.conversation_id
             chat == IF data.id = NoKey THEN conv ELSE data.id
         IN  CASE data.status \in {"in_progress", "completed"} -> ChunkDict("delta", "coze-" \o chat, "")
               [] data.status = "failed" -> ErrorPayload("dict", "coze_error", "conversation_failed", 0)
               [] OTHER -> IF data.has_message /\ data.content # ""
                           THEN ChunkDict("content", "coze-" \o chat, data.content)
                           ELSE NoChunk

\* a value that is not a dict has no .get: the AttributeError is caught inside and None returned
transform_coze_stream_data(data) ==
    IF data.type # "object" THEN NoChunk
    ELSE LET conv == IF data.conversation_id = NoKey THEN "unknown" ELSE data.conversation_id
             chat == IF data.id = NoKey THEN conv ELSE data.id
         IN  CASE data.status = "in_progress" -> ChunkDict("delta", "coze-" \o chat, "")
               [] data.status = "completed" -> ChunkDict("stop", "coze-" \o chat, "")
               [] data.status = "failed" -> ErrorPayload("dict", "coze_error", "conversation_failed", 0)
               [] OTHER -> IF data.has_message /\ data.content # ""
                           THEN ChunkDict("content", "coze-" \o chat, data.content)
                           ELSE NoChunk

-----------------------------------------------------------------------------
(* CozeAdapter.make_stream_request: one line of the stream.                 *)
(* st is the generator's frame: buffer, conversation_id, chat_id,           *)
(* has_yielded_start, current_event, result (held while the generator is   *)
(* suspended at the yield of the start chunk), plus yields (the items       *)
(* yielded so far), raised (an exception left the line loop), consumer ("direct": the  *)
(* caller iterates to the end; "manager": process_stream_request, which     *)
(* returns at the first item it takes for an error) and abandoned (the      *)
(* consumer has returned, the generator stays suspended at that yield).     *)

\* the text json.dumps gives for the item contains the word "error"
MentionsError(item) == item.kind = "error" \/ item.text = "error"

\* process_stream_request: "error" in chunk (a key of a dict, a substring of a str)
LooksLikeError(item) == IF item.wire = "dict" THEN item.kind = "error" ELSE MentionsError(item)

Yield(st, item) ==
    IF st.abandoned THEN st
    ELSE [st EXCEPT !.yields = Append(@, item),
                    !.abandoned = (st.consumer = "manager" /\ LooksLikeError(item))]

\* _parse_stream_line, lines 426-469.  An event: line gives nothing (its name
\* goes to self._current_event_type, which nothing reads); a data: line gives
\* what its payload transforms to, nothing for an empty payload, for the text
\* null and for a payload that is not JSON; any other line is parsed as JSON
\* itself.  make_stream_request calls it for the lines of the last kind only.
parse_stream_line(line) ==
    LET l == Strip(line)
    IN  IF l = <<>> THEN NoChunk
        ELSE IF Head(l) = "event:" THEN NoChunk
        ELSE IF Head(l) = "data:"
             THEN LET json_str == Strip(Tail(l))
                  IN  IF json_str = <<>> \/ json_str = <<JNull>> THEN NoChunk
                      ELSE transform_coze_stream_data(json_loads(json_str))
        ELSE transform_coze_stream_data(json_loads(l))

\* lines 285-311: a parsed data record, up to its first yield.  An id is taken
\* from the record while the one held is None or empty (`not conversation_id`).
ProcessData(st, data) ==
    LET cid == IF ~Truthy(st.conversation_id) /\ data.conversation_id # NoKey
               THEN data.conversation_id ELSE st.conversation_id
        kid == IF ~Truthy(st.chat_id) /\ data.id # NoKey THEN data.id ELSE st.chat_id
        s1 == [st EXCEPT !.conversation_id = cid, !.chat_id = kid]
        result == transform_coze_stream_data(data)
        start_id == IF result.kind = "error"
                    THEN "coze-" \o (IF Truthy(kid) THEN kid ELSE "stream")
                    ELSE result.id
    IN  IF result = NoChunk THEN s1
        ELSE IF ~s1.has_yielded_start
             THEN [Yield(s1, Chunk("start", start_id, "")) EXCEPT !.result = SSE(result)]
             ELSE Yield(s1, SSE(result))

\* lines 308-311: the generator is resumed after the yield of the start chunk
ResumeAfterStart(st) ==
    Yield([st EXCEPT !.has_yielded_start = TRUE, !.result = NoChunk], st.result)

\* lines 263-328, line already stripped
ProcessLine(st, line) ==
    IF line = <<>> THEN st
    ELSE IF Head(line) = "event:" THEN [st EXCEPT !.current_event = Strip(Tail(line))]
    ELSE IF Head(line) = "data:"
         THEN LET data_str == Strip(Tail(line))
              IN  IF data_str = <<>> THEN st
                  ELSE LET data == json_loads(data_str)
                       IN  CASE data.type = "invalid" -> st
                             [] data.type = "null" ->
                                    \* "conversation_id" in None raises TypeError, unless both
                                    \* `not conversation_id and` / `not chat_id and` short-circuit
                                    IF Truthy(st.conversation_id) /\ Truthy(st.chat_id)
                                    THEN ProcessData(st, data)
                                    ELSE [st EXCEPT !.raised = TRUE]
                             [] OTHER -> ProcessData(st, data)
    ELSE LET result == parse_stream_line(line)
         IN  IF result # NoChunk THEN Yield(st, SSE(result)) ELSE st

\* a fragment that forgets the partial line of the fragment before
AppendFragmentReset(buf, chunk) == chunk

\* buffer += chunk
AppendFragment(buf, chunk) == buf \o chunk

\* line, buffer = buffer.split('\n', 1); line = line.strip(); ...
\* (the line and, below, the frame are bound as the element of a one-element
\* set, which has them evaluated once)
NextLine(st) ==
    LET i == FirstNewline(st.buffer)
        rest == SubSeq(st.buffer, i + 1, Len(st.buffer))
    IN  CHOOSE next \in {ProcessLine([st EXCEPT !.buffer = rest], line)
                         : line \in {Strip(SubSeq(st.buffer, 1, i - 1))}} : TRUE

\* the generator runs from where it is to its next suspension: the next yield,
\* or the await of the next fragment when the buffer holds no complete line
RECURSIVE NextSuspension(_)
NextSuspension(st) ==
    IF st.raised \/ st.abandoned THEN st
    ELSE IF st.result # NoChunk THEN ResumeAfterStart(st)
    ELSE IF ~HasNewline(st.buffer) THEN st
    ELSE CHOOSE next \in {IF Len(s1.yields) > Len(st.yields) THEN s1 ELSE NextSuspension(s1)
                          : s1 \in {NextLine(st)}} : TRUE

\* while '\n' in buffer: ..., with a caller that takes every chunk
RECURSIVE ProcessBuffer(_)
ProcessBuffer(st) ==
    IF st.raised \/ st.abandoned THEN st
    ELSE IF st.result # NoChunk THEN ProcessBuffer(ResumeAfterStart(st))
    ELSE IF ~HasNewline(st.buffer) THEN st
    ELSE ProcessBuffer(NextLine(st))

\* the body of `async for chunk in response.aiter_text()` for one fragment,
\* with a caller that takes every chunk
Feed(st, chunk) == ProcessBuffer([st EXCEPT !.buffer = AppendFragment(st.buffer, chunk)])

Frame(buf, cid, kid, started, ev, yields, consumer) ==
    [buffer |-> buf, conversation_id |-> cid, chat_id |-> kid, has_yielded_start |-> started,
     current_event |-> ev, result |-> NoChunk, yields |-> yields, raised |-> FALSE,
     abandoned |-> FALSE, consumer |-> consumer]

-----------------------------------------------------------------------------
(* The upstream *)

\* status codes the upstream answers with
StatusCodes == {200, 302, 404, 503}

\* the lines the body of a "recovery" call's upstream is made of: records that
\* carry one of the two ids or an id that is empty, and the completed record
RecoveryLineKinds ==
    { <<"data:", JConversation>>,
      <<"data:", JChat>>,
      <<"data:", JEmptyId>>,
      <<"data:", JCompleted>> }

\* the lines the body of the other calls' upstream is made of; the record
\* with ids carries both
StreamLineKinds ==
    { <<>>,
      <<"event:", "conversation.chat.in_progress">>,
      <<"data:", " ", JInProgress>>,
      <<"data:", JCompleted>>,
      <<"data:", JCreated>>,
      <<"data:", JFailed>>,
      <<"data:", JMessage>>,
      <<"data:", JNull>>,
      <<"data:", JGarbage>>,
      <<JMessage>> }

\* the lines an upstream body is made of
LineKinds == IF call = "recovery" THEN RecoveryLineKinds ELSE StreamLineKinds

\* the lines of a text: what str.split('\n') gives
RECURSIVE SplitLines(_)
SplitLines(t) ==
    IF ~HasNewline(t) THEN <<t>>
    ELSE LET i == FirstNewline(t)
         IN  <<SubSeq(t, 1, i - 1)>> \o SplitLines(SubSeq(t, i + 1, Len(t)))

LastLine(t) == LET ls == SplitLines(t) IN ls[Len(ls)]

NumNewlines(t) == Len(SplitLines(t)) - 1

\* the atoms the upstream may send next, having sent t, in a body of at most n lines
NextAtoms(t, n) ==
    LET p == LastLine(t)
    IN  IF NumNewlines(t) >= n THEN {}
        ELSE {l[Len(p) + 1] : l \in {k \in LineKinds : Len(k) > Len(p) /\ SubSeq(k, 1, Len(p)) = p}}
             \cup (IF p \in LineKinds THEN {"\n"} ELSE {})

\* the fragments of 1..k atoms the upstream may send next
RECURSIVE Extensions(_, _, _)
Extensions(t, n, k) ==
    IF k = 0 THEN {}
    ELSE UNION { {<<a>>} \cup {<<a>> \o f : f \in Extensions(Append(t, a), n, k - 1)}
                 : a \in NextAtoms(t, n) }

\* what a message-list endpoint answers to the recovery fetch
FetchResponses == {"timeout", "error", "non200", "no_assistant", "assistant"}

\* lines 398-410: the text of the latest assistant message of a 200 response, else nothing
AssistantContent(response) == IF response = "assistant" THEN "answer" ELSE None

\* _fetch_conversation_content lines 381-384
MessageListEndpoints == <<"/v3/chat/message/list", "/v1/conversation/message/list">>

-----------------------------------------------------------------------------
(* The manager and the request *)

NoAdapter == [set |-> FALSE, enabled |-> FALSE]

CozeAdapter(enabled) == [set |-> TRUE, enabled |-> enabled]

Adapters == {NoAdapter, CozeAdapter(TRUE), CozeAdapter(FALSE)}

\* a config dict: a key that is absent holds NoKey
Config(api_key, base_url, enabled) == [api_key |-> api_key, base_url |-> base_url, enabled |-> enabled]

\* the config an adapter of the manager was built from
ConfigOf(a) == Config("key-a", "https://api.coze.com", a.enabled)

\* CozeAdapter.get_supported_endpoints
SupportedEndpoints == {"/chat/completions"}

Endpoints == {"/chat/completions", "/embeddings"}

\* the model field, as atoms: the prefix "bot-" and an id
Models == {<<>>, <<"bot-">>, <<"bot-", "abc123">>, <<"abc123">>}

Requests == [model : Models, has_messages : BOOLEAN]

DefaultRequest == [model |-> <<"bot-", "abc123">>, has_messages |-> TRUE]

\* the requests of a streaming call: one that transform_request accepts, one it rejects
StreamRequests == {DefaultRequest, [model |-> <<>>, has_messages |-> TRUE]}

BotIdKeepPrefix(model) == model

\* transform_request, lines 37-42
BotId(model) == IF model # <<>> /\ Head(model) = "bot-" THEN Tail(model) ELSE model

\* self.bot_id of the adapters before any request: None (line 22), written <<>>
\* as the empty model name is, since the code only tests its truth
NoBotIds == [i \in 1..MaxInstances |-> <<>>]

\* transform_request raises ValueError (line 45)
TransformRequestRaises(ep, req) ==
    ep = "/chat/completions" /\ req.has_messages /\ BotId(req.model) = <<>>

\* platform_response["json"] of a non-streaming call
JsonBodies == {None, "answer", "no_answer", "list"}

\* a JSON array has no .get: _transform_chat_response raises AttributeError (line 98)
TransformResponseRaises(body) == body = "list"

\* _transform_chat_response: the reply is the content of the message of type "answer"
transform_chat_response(body) ==
    Item("response", "dict", "chatcmpl-c1", IF body = "answer" THEN "answer" ELSE "", "", "", 0)

-----------------------------------------------------------------------------
(* Error payloads *)

StreamTimeoutErrorAsInternal == SSE(ErrorPayload("dict", "internal_error", "streaming_error", 0))

\* make_stream_request, lines 350-359
StreamTimeoutError == SSE(ErrorPayload("dict", "timeout_error", "timeout", 0))

\* make_stream_request, lines 360-369
StreamInternalError == SSE(ErrorPayload("dict", "internal_error", "streaming_error", 0))

\* process_request lines 154-160, process_stream_request lines 325-331
ProcessingError == ErrorPayload("dict", "internal_error", "processing_error", 0)

\* process_request lines 123-129, and make_stream_request lines 236-242
PlatformError(code) == ErrorPayload("dict", "platform_error", "", code)

\* process_request lines 138-144
InvalidResponse == ErrorPayload("dict", "invalid_response", "no_json", 0)

-----------------------------------------------------------------------------
(* Initial state: a caller is about to run one call.  "direct" and          *)
(* "recovery" iterate CozeAdapter.make_stream_request itself; "stream"      *)
(* iterates                                                                 *)
(* AdapterManager.process_stream_request; "request" awaits                  *)
(* AdapterManager.process_request.                                          *)

Init ==
    /\ call \in {"direct", "recovery", "stream", "request", "fallback"}
    /\ IF call \in {"direct", "recovery"}
       THEN /\ pc = "open"
            /\ adapter = CozeAdapter(TRUE)
            /\ endpoint = "/chat/completions"
            /\ request = DefaultRequest
       ELSE /\ pc = "begin"
            /\ adapter \in Adapters
            /\ endpoint \in Endpoints
            /\ request \in IF call \in {"stream", "fallback"} THEN StreamRequests ELSE Requests
    /\ status = 0
    /\ json = None
    /\ text = <<>>
    /\ buffer = <<>>
    /\ conversation_id = None
    /\ chat_id = None
    /\ has_yielded_start = FALSE
    /\ current_event = <<>>
    /\ held_result = NoChunk
    /\ out = <<>>
    /\ escaped = None
    /\ fault = None
    /\ fetched = <<>>
    /\ transformed = FALSE
    /\ config = IF adapter.set THEN ConfigOf(adapter) ELSE None
    /\ op = None
    /\ arg = None
    /\ ret = None
    /\ instance = IF adapter.set THEN 1 ELSE 0
    /\ bot_id = NoBotIds
    /\ tasks = <<>>
    /\ proxies = <<>>

StreamVars == <<text, buffer, conversation_id, chat_id, has_yielded_start,
                current_event, held_result, fetched>>

Consumer == IF call = "stream" THEN "manager" ELSE "direct"

\* what the steps of a manager or adapter call leave alone
SideVars == <<config, op, arg, ret, instance, bot_id, tasks, proxies>>

-----------------------------------------------------------------------------
(* AdapterManager.process_request lines 88-100 and process_stream_request   *)
(* lines 196-208: the three checks, which raise, and transform_request      *)
(* inside the try.                                                          *)

Begin ==
    /\ pc = "begin"
    /\ IF ~adapter.set \/ ~adapter.enabled
       THEN escaped' = "RuntimeError" /\ pc' = "done" /\ out' = out /\ fault' = fault
       ELSE IF endpoint \notin SupportedEndpoints
       THEN escaped' = "ValueError" /\ pc' = "done" /\ out' = out /\ fault' = fault
       ELSE IF TransformRequestRaises(endpoint, request)
       THEN /\ escaped' = escaped
            /\ pc' = "done"
            /\ out' = Append(out, ProcessingError)
            /\ fault' = "transform_request"
       ELSE /\ escaped' = escaped
            /\ out' = out
            /\ fault' = fault
            /\ pc' = CASE call \in {"stream", "forward"} -> "open"
                        [] call = "fallback" -> "fallback"
                        [] OTHER -> "dispatch"
    /\ bot_id' = IF adapter.set /\ adapter.enabled /\ endpoint \in SupportedEndpoints
                     /\ request.has_messages
                  THEN [bot_id EXCEPT ![instance] = BotId(request.model)]
                  ELSE bot_id
    /\ UNCHANGED <<call, adapter, endpoint, request, status, json, transformed>>
    /\ UNCHANGED StreamVars
    /\ UNCHANGED <<config, op, arg, ret, instance, tasks, proxies>>

(* process_request lines 109-160: make_request and what follows it *)

DispatchResponse ==
    /\ pc = "dispatch"
    /\ \E s \in StatusCodes, body \in JsonBodies :
          /\ status' = s
          /\ json' = body
          /\ IF s >= 400
             THEN out' = Append(out, PlatformError(s)) /\ transformed' = FALSE /\ fault' = fault
             ELSE IF body # None
             THEN /\ transformed' = TRUE
                  /\ out' = Append(out, IF TransformResponseRaises(body) THEN ProcessingError
                                        ELSE transform_chat_response(body))
                  /\ fault' = IF TransformResponseRaises(body) THEN "transform_response" ELSE fault
             ELSE out' = Append(out, InvalidResponse) /\ transformed' = FALSE /\ fault' = fault
    /\ pc' = "done"
    /\ UNCHANGED <<call, adapter, endpoint, request, escaped>>
    /\ UNCHANGED StreamVars
    /\ UNCHANGED SideVars

\* make_request raises (httpx.TimeoutException or another exception): lines 148-160
DispatchFault ==
    /\ pc = "dispatch"
    /\ \E f \in {"timeout", "error"} : fault' = f
    /\ out' = Append(out, ProcessingError)
    /\ pc' = "done"
    /\ UNCHANGED <<call, adapter, endpoint, request, status, json, escaped, transformed>>
    /\ UNCHANGED StreamVars
    /\ UNCHANGED SideVars

(* process_stream_request lines 233-317: the adapter has no make_stream_request *)

\* lines 263-309: the chunks synthesized from the transformed response
FallbackChunks(response) ==
    <<ChunkDict("start", response.id, "")>>
    \o (IF response.text # "" THEN <<ChunkDict("content", response.id, response.text)>> ELSE <<>>)
    \o <<ChunkDict("stop", response.id, "")>>

\* lines 239-277 and 310-317: make_request returns; the error payload, or the
\* first of the chunks
FallbackResponse ==
    /\ pc = "fallback"
    /\ \E s \in StatusCodes, body \in JsonBodies :
          /\ status' = s
          /\ json' = body
          /\ IF s >= 400
             THEN /\ out' = Append(out, PlatformError(s))
                  /\ transformed' = FALSE /\ fault' = fault /\ pc' = "done"
             ELSE IF body # None
             THEN /\ transformed' = TRUE
                  /\ out' = Append(out, IF TransformResponseRaises(body) THEN ProcessingError
                                        ELSE FallbackChunks(transform_chat_response(body))[1])
                  /\ fault' = IF TransformResponseRaises(body) THEN "transform_response" ELSE fault
                  /\ pc' = IF TransformResponseRaises(body) THEN "done" ELSE "fallback_chunks"
             ELSE /\ out' = Append(out, InvalidResponse)
                  /\ transformed' = FALSE /\ fault' = fault /\ pc' = "done"
    /\ UNCHANGED <<call, adapter, endpoint, request, escaped>>
    /\ UNCHANGED StreamVars
    /\ UNCHANGED SideVars

\* lines 280-308: the caller resumes the generator, which yields its next chunk;
\* the stop chunk is the last
FallbackYield ==
    /\ pc = "fallback_chunks"
    /\ LET chunks == FallbackChunks(transform_chat_response(json))
       IN  /\ out' = Append(out, chunks[Len(out) + 1])
           /\ pc' = IF Len(out) + 1 = Len(chunks) THEN "done" ELSE "fallback_chunks"
    /\ UNCHANGED <<call, adapter, endpoint, request, status, json, escaped, fault, transformed>>
    /\ UNCHANGED StreamVars
    /\ UNCHANGED SideVars

\* make_request raises: lines 319-331
FallbackFault ==
    /\ pc = "fallback"
    /\ \E f \in {"timeout", "error"} : fault' = f
    /\ out' = Append(out, ProcessingError)
    /\ pc' = "done"
    /\ UNCHANGED <<call, adapter, endpoint, request, status, json, escaped, transformed>>
    /\ UNCHANGED StreamVars
    /\ UNCHANGED SideVars

-----------------------------------------------------------------------------
(* CozeAdapter.make_stream_request *)

AfterTimeoutHang == "hung"

\* the except clauses end the generator
AfterTimeout == "done"

\* lines 222-231: the response arrives; the body of an error response is
\* awaited next
Open ==
    /\ pc = "open"
    /\ \E s \in StatusCodes :
          /\ status' = s
          /\ pc' = IF s >= 400 THEN "aread" ELSE "read"
    /\ UNCHANGED <<call, adapter, endpoint, request, json, out, escaped, fault, transformed>>
    /\ UNCHANGED StreamVars
    /\ UNCHANGED SideVars

\* lines 232-243: response.aread() returns, the platform_error payload is yielded
ReadErrorBody ==
    /\ pc = "aread"
    /\ out' = Append(out, PlatformError(status))
    /\ pc' = "done"
    /\ UNCHANGED <<call, adapter, endpoint, request, status, json, escaped, fault, transformed>>
    /\ UNCHANGED StreamVars
    /\ UNCHANGED SideVars

\* lines 350-369: the transport fails before a response, while the body of an
\* error response is read, or between fragments
TransportFault ==
    /\ pc \in {"open", "aread", "read"}
    /\ \E f \in {"timeout", "error"} :
          /\ fault' = f
          /\ out' = Append(out, IF f = "timeout" THEN StreamTimeoutError ELSE StreamInternalError)
          /\ pc' = IF f = "timeout" THEN AfterTimeout ELSE "done"
    /\ UNCHANGED <<call, adapter, endpoint, request, status, json, escaped, transformed>>
    /\ UNCHANGED StreamVars
    /\ UNCHANGED SideVars

\* the generator has run to its next suspension, in frame st.  pc is "yield"
\* while it is suspended at a yield with a chunk or a complete line still to
\* process before it awaits the upstream again, "read" once the next thing it
\* does is to await the next fragment.
Suspend(st) ==
    /\ buffer' = st.buffer
    /\ conversation_id' = st.conversation_id
    /\ chat_id' = st.chat_id
    /\ has_yielded_start' = st.has_yielded_start
    /\ current_event' = st.current_event
    /\ held_result' = st.result
    /\ out' = IF st.raised THEN Append(st.yields, StreamInternalError) ELSE st.yields
    /\ pc' = IF st.raised \/ st.abandoned THEN "done"
             ELSE IF st.result # NoChunk \/ HasNewline(st.buffer) THEN "yield"
             ELSE "read"
    /\ fault' = IF st.raised THEN "line" ELSE fault

\* lines 254-328: aiter_text gives the next fragment
Deliver ==
    /\ pc = "read"
    /\ \E chunk \in Extensions(text, IF status = 200 THEN MaxLines ELSE MaxRedirectLines, MaxFrag) :
          /\ text' = text \o chunk
          /\ \E st \in {NextSuspension(Frame(AppendFragment(buffer, chunk), conversation_id,
                                             chat_id, has_yielded_start, current_event, out,
                                             Consumer))} :
                Suspend(st)
    /\ UNCHANGED <<call, adapter, endpoint, request, status, json, escaped, fetched, transformed>>
    /\ UNCHANGED SideVars

\* lines 261-328: the caller asks for the next chunk, the generator goes on
\* from the yield it was suspended at
Resume ==
    /\ pc = "yield"
    /\ \E st \in {NextSuspension([Frame(buffer, conversation_id, chat_id, has_yielded_start,
                                          current_event, out, Consumer)
                                        EXCEPT !.result = held_result])} :
          Suspend(st)
    /\ UNCHANGED <<call, adapter, endpoint, request, status, json, text, escaped, fetched,
                   transformed>>
    /\ UNCHANGED SideVars

\* a recovery fetch that one id is enough for
fetch_with_either_id(cid, kid) == Truthy(cid) \/ Truthy(kid)

\* line 331: `if conversation_id and chat_id`, a test of the truth of the two ids
fetch_with_both_ids(cid, kid) == Truthy(cid) /\ Truthy(kid)

\* lines 330-331: the upstream closes the stream
EndOfStream ==
    /\ pc = "read"
    /\ pc' = IF fetch_with_both_ids(conversation_id, chat_id) THEN "fetch" ELSE "done"
    /\ UNCHANGED <<call, adapter, endpoint, request, status, json, out, escaped, fault, transformed>>
    /\ UNCHANGED StreamVars
    /\ UNCHANGED SideVars

\* a recovery fetch whose failure ends the stream with an error payload
FetchFailureIsFatal ==
    /\ pc = "fetch"
    /\ \E response \in FetchResponses :
          LET content == AssistantContent(response)
              last == Len(fetched) + 1 = Len(MessageListEndpoints)
          IN  /\ fetched' = Append(fetched, response)
              /\ out' = IF content # None THEN Append(out, Chunk("content", chat_id, content))
                        ELSE IF last THEN Append(out, StreamInternalError)
                        ELSE out
              /\ pc' = IF content # None \/ last THEN "done" ELSE "fetch"
    /\ UNCHANGED <<call, adapter, endpoint, request, status, json, text, buffer,
                   conversation_id, chat_id, has_yielded_start, current_event, held_result, escaped,
                   fault, transformed>>
    /\ UNCHANGED SideVars

\* lines 332-348 and _fetch_conversation_content lines 386-414: the next
\* message-list endpoint answers the GET, or the GET raises.  An assistant
\* message ends the fetch and is yielded as a chunk; otherwise the next
\* endpoint is asked, and after the last one the stream ends with no chunk.
Fetch ==
    /\ pc = "fetch"
    /\ \E response \in FetchResponses :
          LET content == AssistantContent(response)
              last == Len(fetched) + 1 = Len(MessageListEndpoints)
          IN  /\ fetched' = Append(fetched, response)
              /\ out' = IF content # None THEN Append(out, Chunk("content", chat_id, content))
                        ELSE out
              /\ pc' = IF content # None \/ last THEN "done" ELSE "fetch"
    /\ UNCHANGED <<call, adapter, endpoint, request, status, json, text, buffer,
                   conversation_id, chat_id, has_yielded_start, current_event, held_result, escaped,
                   fault, transformed>>
    /\ UNCHANGED SideVars

-----------------------------------------------------------------------------

Next ==
    \/ Begin
    \/ DispatchResponse
    \/ DispatchFault
    \/ FallbackResponse
    \/ FallbackYield
    \/ FallbackFault
    \/ Open
    \/ ReadErrorBody
    \/ TransportFault
    \/ Deliver
    \/ Resume
    \/ EndOfStream
    \/ Fetch

Spec == Init /\ [][Next]_vars

\* every await of the code returns or raises: httpx bounds each with the adapter's timeout
FairSpec == Spec /\ WF_vars(Next)

-----------------------------------------------------------------------------
(* AdapterManager.initialize_adapter and the registry *)

\* manager.py line 23: the adapters registered at construction
RegisteredPlatforms == {"coze"}

\* the platform types callers ask for
PlatformTypes == {"coze", "openai", ""}

\* the configs callers pass: api_key and base_url absent, empty or set
Configs ==
    {Config(k, u, en) : k \in {NoKey, "", "key-a", "key-b"},
                        u \in {NoKey, "", "https://api.coze.com"},
                        en \in BOOLEAN}

\* truth value of config.get(key): None (absent) and "" are false
validate_config_key_only(cfg) == Truthy(cfg.api_key)

\* BasePlatformAdapter.validate_config
validate_config(cfg) == Truthy(cfg.api_key) /\ Truthy(cfg.base_url)

\* a config argument that is not a dict (None, say)
NotADict == [not_a_dict |-> TRUE]

\* config.get exists: otherwise BasePlatformAdapter.__init__ raises AttributeError (line 25)
IsDict(cfg) == "api_key" \in DOMAIN cfg

\* AdapterRegistry.get_adapter: NoAdapter stands for None; an exception of the
\* constructor is caught (lines 186-188)
get_adapter(platform_name, cfg) ==
    IF platform_name \notin RegisteredPlatforms THEN NoAdapter
    ELSE IF ~IsDict(cfg) THEN NoAdapter
    ELSE IF ~validate_config(cfg) THEN NoAdapter
    ELSE CozeAdapter(cfg.enabled)

ManagerInit ==
    /\ call = "initialize"
    /\ pc = "idle"
    /\ adapter = NoAdapter
    /\ config = None
    /\ endpoint = "/chat/completions"
    /\ request = DefaultRequest
    /\ status = 0
    /\ json = None
    /\ text = <<>>
    /\ buffer = <<>>
    /\ conversation_id = None
    /\ chat_id = None
    /\ has_yielded_start = FALSE
    /\ current_event = <<>>
    /\ held_result = NoChunk
    /\ out = <<>>
    /\ escaped = None
    /\ fault = None
    /\ fetched = <<>>
    /\ transformed = FALSE
    /\ op = None
    /\ arg = None
    /\ ret = None
    /\ instance = 0
    /\ bot_id = NoBotIds
    /\ tasks = <<>>
    /\ proxies = <<>>

\* a call of initialize_adapter that forgets the current adapter when it fails
InitializeAdapterForgetting ==
    /\ call = "initialize"
    /\ \E t \in PlatformTypes, cfg \in Configs \cup {NotADict} :
          LET a == get_adapter(t, cfg)
          IN  /\ a.set => instance < MaxInstances
              /\ op' = "initialize_adapter"
              /\ arg' = [platform_type |-> t, config |-> cfg]
              /\ ret' = a.set
              /\ adapter' = a
              /\ config' = IF a.set THEN cfg ELSE None
              /\ instance' = IF a.set THEN instance + 1 ELSE 0
    /\ UNCHANGED <<call, pc, endpoint, request, status, json, out, escaped, fault, transformed>>
    /\ UNCHANGED StreamVars
    /\ UNCHANGED <<bot_id, tasks, proxies>>

\* one call of initialize_adapter(platform_type, config)
InitializeAdapter ==
    /\ call = "initialize"
    /\ \E t \in PlatformTypes, cfg \in Configs \cup {NotADict} :
          LET a == get_adapter(t, cfg)
          IN  /\ a.set => instance < MaxInstances
              /\ op' = "initialize_adapter"
              /\ arg' = [platform_type |-> t, config |-> cfg]
              /\ ret' = a.set
              /\ adapter' = IF a.set THEN a ELSE adapter
              /\ config' = IF a.set THEN cfg ELSE config
              /\ instance' = IF a.set THEN instance + 1 ELSE instance
    /\ UNCHANGED <<call, pc, endpoint, request, status, json, out, escaped, fault, transformed>>
    /\ UNCHANGED StreamVars
    /\ UNCHANGED <<bot_id, tasks, proxies>>

ManagerSpec == ManagerInit /\ [][InitializeAdapter]_vars

-----------------------------------------------------------------------------
(* Several requests in flight on the one AdapterManager.  A coroutine runs   *)
(* without interruption from one await that suspends to the next; of the    *)
(* awaits of process_request only make_request suspends (transform_request  *)
(* and transform_response await nothing), and a stream suspends at each     *)
(* yield.  initialize_adapter may run whenever no coroutine is running:     *)
(* AdapterProxy.__init__ calls it for every client the factory creates.     *)

\* the variables of one call, for a state in which no single call is followed
NoCall ==
    /\ endpoint = "/chat/completions"
    /\ request = DefaultRequest
    /\ status = 0
    /\ json = None
    /\ text = <<>>
    /\ buffer = <<>>
    /\ conversation_id = None
    /\ chat_id = None
    /\ has_yielded_start = FALSE
    /\ current_event = <<>>
    /\ held_result = NoChunk
    /\ out = <<>>
    /\ escaped = None
    /\ fault = None
    /\ fetched = <<>>
    /\ transformed = FALSE

NoCallVars == <<call, pc, adapter, endpoint, request, status, json, out, escaped, fault,
                transformed, config, op, arg, ret>>

Tasks == {1, 2}

ServingModels == {<<"bot-", "abc123">>, <<"bot-", "xyz789">>}

\* a request about to be served: stream tells process_stream_request from
\* process_request; the four _on fields will hold the adapter object that ran
\* each step (0: not run), model_field the bot id in the "model" field of the
\* response or of the start chunk
NewTasks ==
    [pc : {"idle"}, stream : BOOLEAN, model : ServingModels, transform_request_on : {0},
     url_on : {0}, make_request_on : {0}, transform_response_on : {0}, model_field : {<<>>}]

ServingInit ==
    /\ call = "serving"
    /\ pc = "serving"
    /\ adapter = CozeAdapter(TRUE)
    /\ config = ConfigOf(adapter)
    /\ NoCall
    /\ op = None
    /\ arg = None
    /\ ret = None
    /\ instance = 1
    /\ bot_id = NoBotIds
    /\ tasks \in [Tasks -> NewTasks]
    /\ proxies = <<>>

\* initialize_adapter succeeds (lines 40-49): a new adapter object becomes the current one
ReloadAdapter ==
    /\ call = "serving"
    /\ instance < MaxInstances
    /\ instance' = instance + 1
    /\ UNCHANGED <<bot_id, tasks, proxies>>
    /\ UNCHANGED NoCallVars
    /\ UNCHANGED StreamVars

\* process_request lines 88-109, process_stream_request lines 196-219: the
\* checks, transform_request (which stores self.bot_id), the URL, and the call
\* of make_request / make_stream_request, up to the await of the upstream
StartRequest(t) ==
    /\ call = "serving"
    /\ tasks[t].pc = "idle"
    /\ bot_id' = [bot_id EXCEPT ![instance] = BotId(tasks[t].model)]
    /\ tasks' = [tasks EXCEPT ![t] = [@ EXCEPT !.pc = "awaiting",
                                              !.transform_request_on = instance,
                                              !.url_on = instance,
                                              !.make_request_on = instance]]
    /\ UNCHANGED <<instance, proxies>>
    /\ UNCHANGED NoCallVars
    /\ UNCHANGED StreamVars

\* process_request lines 117-146 after a JSON answer below 400:
\* self._current_adapter.transform_response, which reads self.bot_id
FinishRequest(t) ==
    /\ call = "serving"
    /\ tasks[t].pc = "awaiting"
    /\ ~tasks[t].stream
    /\ tasks' = [tasks EXCEPT ![t] = [@ EXCEPT !.pc = "done",
                                              !.transform_response_on = instance,
                                              !.model_field = bot_id[instance]]]
    /\ UNCHANGED <<instance, bot_id, proxies>>
    /\ UNCHANGED NoCallVars
    /\ UNCHANGED StreamVars

\* make_stream_request lines 295-308: the generator yields its start chunk,
\* reading self.bot_id of the adapter it was called on
YieldStartChunk(t) ==
    /\ call = "serving"
    /\ tasks[t].pc = "awaiting"
    /\ tasks[t].stream
    /\ tasks' = [tasks EXCEPT ![t] = [@ EXCEPT !.pc = "done",
                                              !.model_field = bot_id[tasks[t].make_request_on]]]
    /\ UNCHANGED <<instance, bot_id, proxies>>
    /\ UNCHANGED NoCallVars
    /\ UNCHANGED StreamVars

ServingNext ==
    \/ ReloadAdapter
    \/ \E t \in Tasks : StartRequest(t)
    \/ \E t \in Tasks : FinishRequest(t)
    \/ \E t \in Tasks : YieldStartChunk(t)

ServingSpec == ServingInit /\ [][ServingNext]_vars

-----------------------------------------------------------------------------
(* A request through PlatformClientFactory.create_client and                *)
(* AdapterProxy.make_request.  arg holds the platform type the caller asks  *)
(* for, platform_config (with or without its "type" key, which holds the    *)
(* same platform type) and the path; ret tells who answered.                *)

ProxyInit ==
    /\ call = "proxy"
    /\ pc = "create_client"
    /\ adapter = NoAdapter
    /\ config = None
    /\ NoCall
    /\ op = None
    /\ arg \in [platform_type : PlatformTypes, has_type : BOOLEAN, config : Configs,
                 path : Endpoints]
    /\ ret = None
    /\ instance = 0
    /\ bot_id = [i \in 1..MaxDepth |-> <<>>]
    /\ tasks = <<>>
    /\ proxies = <<>>

\* AdapterManager.is_platform_supported
is_platform_supported(platform_type) == platform_type \in RegisteredPlatforms

\* create_client(platform_type, platform_config), called by the API handler
\* (pc = "create_client") or by _fallback_request of the innermost proxy (pc =
\* "fallback_request", proxy.py line 98), and the call of make_request on the
\* client it returns, up to that call's first await.  For a platform the
\* adapter system supports the client is a new AdapterProxy, whose __init__
\* (proxy.py 25-40) reads the type from the config and calls
\* initialize_adapter.  A platform the adapter system does not support gets a
\* legacy client.
\*
\* The nested calls end at the interpreter's recursion limit, at a depth that
\* the limit and the caller's stack fix (here any depth from the first nested
\* call on, MaxDepth at the latest).  Where the RecursionError is raised
\* depends on the build:
\*   - while the adapter is constructed, where get_adapter (base.py 186) or
\*     initialize_adapter (manager.py 51) swallows it: the proxy is built in
\*     fallback mode and the current adapter stays, and so for every proxy
\*     after it;
\*   - elsewhere inside the try of create_client, whose `except Exception`
\*     goes on to the legacy client;
\*   - outside of every try (the handler's logger call, _fallback_request): it
\*     reaches the caller through every AdapterProxy.make_request.
\* The legacy client of every platform type here is OpenAIClient, whose
\* make_request raises AttributeError on a config without base_url
\* (platform_clients.py line 69: None has no rstrip) and otherwise awaits the
\* upstream.
CreateClient ==
    /\ call = "proxy"
    /\ pc \in {"create_client", "fallback_request"}
    /\ LET nested == pc = "fallback_request"
           platform == IF nested THEN proxies[Len(proxies)].platform_type ELSE arg.platform_type
           type == IF arg.has_type THEN arg.platform_type ELSE "unknown"
           a == IF is_platform_supported(type) THEN get_adapter(type, arg.config) ELSE NoAdapter
           \* the limit was reached while the innermost proxy was built
           limit_reached == nested /\ a.set /\ proxies[Len(proxies)].fallback_mode
           outcomes ==
               IF ~is_platform_supported(platform) THEN {"legacy"}
               ELSE (IF Len(proxies) < MaxDepth /\ ~limit_reached THEN {"proxy"} ELSE {})
                    \cup (IF nested /\ Len(proxies) < MaxDepth THEN {"swallowed"} ELSE {})
                    \cup (IF nested THEN {"legacy", "RecursionError"} ELSE {})
       IN  \E outcome \in outcomes :
              CASE outcome \in {"proxy", "swallowed"} ->
                       LET built == outcome = "proxy" /\ a.set
                       IN  /\ proxies' = Append(proxies, [platform_type |-> type,
                                                         fallback_mode |-> ~built])
                           /\ adapter' = IF built THEN a ELSE adapter
                           /\ config' = IF built THEN arg.config ELSE config
                           /\ instance' = IF built THEN instance + 1 ELSE instance
                           /\ pc' = "make_request"
                           /\ escaped' = escaped
                [] outcome = "legacy" ->
                       /\ pc' = IF arg.config.base_url = NoKey THEN "done" ELSE "legacy_request"
                       /\ escaped' = IF arg.config.base_url = NoKey THEN "AttributeError"
                                     ELSE escaped
                       /\ UNCHANGED <<proxies, adapter, config, instance>>
                [] outcome = "RecursionError" ->
                       /\ pc' = "done"
                       /\ escaped' = "RecursionError"
                       /\ UNCHANGED <<proxies, adapter, config, instance>>
    /\ UNCHANGED <<call, endpoint, request, status, json, out, fault, transformed,
                   op, arg, ret, bot_id, tasks>>
    /\ UNCHANGED StreamVars

\* OpenAIClient.make_request lines 77-92: the upstream answers, or httpx
\* raises (always for a base_url that is empty: the URL has no scheme), or, in
\* a legacy client made at the recursion limit (the platform is one the
\* adapter system supports), the calls into httpx raise RecursionError; what
\* is raised goes through every AdapterProxy.make_request to the caller
LegacyMakeRequest ==
    /\ call = "proxy"
    /\ pc = "legacy_request"
    /\ \E outcome \in (IF arg.config.base_url = "" THEN {} ELSE {"legacy"})
                       \cup {"httpx error"}
                       \cup (IF proxies # <<>>
                                 /\ is_platform_supported(proxies[Len(proxies)].platform_type)
                             THEN {"RecursionError"} ELSE {}) :
          /\ ret' = IF outcome = "legacy" THEN "legacy" ELSE ret
          /\ escaped' = IF outcome = "legacy" THEN escaped ELSE outcome
    /\ pc' = "done"
    /\ UNCHANGED <<call, adapter, endpoint, request, status, json, out, fault,
                   transformed, config, op, arg, instance, bot_id, tasks, proxies>>
    /\ UNCHANGED StreamVars

\* process_request raises (manager.py lines 88-96)
ProcessRequestRaises(path) ==
    ~adapter.set \/ ~adapter.enabled \/ path \notin SupportedEndpoints

\* AdapterProxy.make_request of the innermost proxy, lines 55-79, up to its
\* first await that suspends: in fallback mode, or when process_request raises,
\* it goes to _fallback_request; otherwise process_request runs
\* transform_request, which stores the bot id (manager.py 100), and awaits the
\* upstream (manager.py 109)
ProxyMakeRequest ==
    /\ call = "proxy"
    /\ pc = "make_request"
    /\ IF proxies[Len(proxies)].fallback_mode \/ ProcessRequestRaises(arg.path)
       THEN pc' = "fallback_request" /\ bot_id' = bot_id
       ELSE /\ pc' = "process_request"
            /\ bot_id' = IF request.has_messages
                          THEN [bot_id EXCEPT ![instance] = BotId(request.model)]
                          ELSE bot_id
    /\ UNCHANGED <<call, adapter, endpoint, request, status, json, out, escaped, fault,
                   transformed, config, op, arg, ret, instance, tasks, proxies>>
    /\ UNCHANGED StreamVars

\* manager.py lines 109-160 and proxy.py line 60: the upstream answers or the
\* call raises; either way process_request returns a payload, which
\* AdapterProxy.make_request returns
ProxyAnswer ==
    /\ call = "proxy"
    /\ pc = "process_request"
    /\ pc' = "done"
    /\ ret' = "adapter"
    /\ UNCHANGED <<call, adapter, endpoint, request, status, json, out, escaped, fault,
                   transformed, config, op, arg, instance, bot_id, tasks, proxies>>
    /\ UNCHANGED StreamVars

ProxyNext == CreateClient \/ ProxyMakeRequest \/ ProxyAnswer \/ LegacyMakeRequest

ProxySpec == ProxyInit /\ [][ProxyNext]_vars

-----------------------------------------------------------------------------
(* process_stream_request forwarding what make_stream_request yields for a  *)
(* stream of well-formed data records, one record at a time: the prelude    *)
(* (Begin), the response to the stream-open request, then the records.  arg *)
(* holds the parsed records the upstream has sent.                          *)

\* the parsed payloads of the records: status events, a message whose content
\* is "hi" and one whose content is the word "error"
UpstreamObjects ==
    {JsonObject(st, NoKey, NoKey, FALSE, "") : st \in {"in_progress", "completed", "failed"}}
    \cup {JsonObject("", NoKey, NoKey, TRUE, content) : content \in {"hi", "error"}}

ForwardInit ==
    /\ call = "forward"
    /\ pc = "begin"
    /\ adapter = CozeAdapter(TRUE)
    /\ config = ConfigOf(adapter)
    /\ NoCall
    /\ op = None
    /\ arg = <<>>
    /\ ret = None
    /\ instance = 1
    /\ bot_id = NoBotIds
    /\ tasks = <<>>
    /\ proxies = <<>>

\* coze_adapter.py lines 222-254: the upstream answers the stream-open request
\* with 200, the generator awaits the first fragment
ForwardOpen ==
    /\ call = "forward"
    /\ pc = "open"
    /\ status' = 200
    /\ pc' = "forwarding"
    /\ UNCHANGED <<call, adapter, endpoint, request, json, out, escaped, fault, transformed>>
    /\ UNCHANGED StreamVars
    /\ UNCHANGED SideVars

\* coze_adapter.py lines 285-311 for one record, up to its first yield, and
\* manager.py lines 219-232 for the chunk: it is yielded to the caller, and the
\* manager returns once it takes the chunk for an error
ForwardRecord ==
    /\ call = "forward"
    /\ pc = "forwarding"
    /\ held_result = NoChunk
    /\ Len(arg) < MaxRecords
    /\ \E data \in UpstreamObjects :
          LET st == ProcessData(Frame(buffer, conversation_id, chat_id, has_yielded_start,
                                      current_event, out, "manager"), data)
          IN  /\ arg' = Append(arg, data)
              /\ conversation_id' = st.conversation_id
              /\ chat_id' = st.chat_id
              /\ has_yielded_start' = st.has_yielded_start
              /\ held_result' = st.result
              /\ out' = st.yields
              /\ pc' = IF st.abandoned THEN "returned" ELSE "forwarding"
    /\ UNCHANGED <<call, adapter, endpoint, request, status, json, text, buffer, current_event,
                   escaped, fault, fetched, transformed, config, op, ret, instance, bot_id,
                   tasks, proxies>>

\* coze_adapter.py lines 308-311: the caller has taken the start chunk, the
\* generator goes on to the chunk of the record
ForwardResume ==
    /\ call = "forward"
    /\ pc = "forwarding"
    /\ held_result # NoChunk
    /\ LET st == ResumeAfterStart([Frame(buffer, conversation_id, chat_id, has_yielded_start,
                                         current_event, out, "manager") EXCEPT !.result = held_result])
       IN  /\ has_yielded_start' = st.has_yielded_start
           /\ held_result' = st.result
           /\ out' = st.yields
           /\ pc' = IF st.abandoned THEN "returned" ELSE "forwarding"
    /\ UNCHANGED <<call, adapter, endpoint, request, status, json, text, buffer,
                   conversation_id, chat_id, current_event, escaped, fault, fetched,
                   transformed, config, op, arg, ret, instance, bot_id, tasks, proxies>>

\* the upstream closes the stream: the generator is exhausted (no ids were seen, so no fetch)
UpstreamCloses ==
    /\ call = "forward"
    /\ pc = "forwarding"
    /\ held_result = NoChunk
    /\ pc' = "exhausted"
    /\ UNCHANGED <<call, adapter, endpoint, request, status, json, out, escaped, fault,
                   transformed, config, op, arg, ret, instance, bot_id, tasks, proxies>>
    /\ UNCHANGED StreamVars

ForwardNext == Begin \/ ForwardOpen \/ ForwardRecord \/ ForwardResume \/ UpstreamCloses

ForwardSpec == ForwardInit /\ [][ForwardNext]_vars

-----------------------------------------------------------------------------
(* Request and response conversions: CozeAdapter.transform_request /        *)
(* transform_response, AnthropicClient and GoogleClient _convert_*.         *)
(* Scalars of a request are JSON texts ("true", "100"); a key that is       *)
(* absent holds NoKey.                                                      *)

\* the most messages a chat request carries
MaxMessages == 3

Roles == {"system", "user", "assistant", "tool"}

Contents == {"Hi", "Be terse", ""}

Message(role, content) == [role |-> role, content |-> content]

Messages == {Message(r, c) : r \in Roles, c \in Contents}

RECURSIVE SeqsUpTo(_, _)
SeqsUpTo(S, n) ==
    IF n = 0 THEN {<<>>}
    ELSE LET shorter == SeqsUpTo(S, n - 1)
         IN  shorter \cup {Append(q, x) : q \in {r \in shorter : Len(r) = n - 1}, x \in S}

\* an OpenAI chat request; has_messages: the request has the key "messages"
ChatRequest(model, has_messages, messages, user, stream, max_tokens) ==
    [model |-> model, has_messages |-> has_messages, messages |-> messages,
     user |-> user, stream |-> stream, max_tokens |-> max_tokens]

MessageLists == SeqsUpTo(Messages, MaxMessages)

\* the requests given to CozeAdapter.transform_request: every message list
\* with every model name without user and stream, and with the model
\* bot-abc123 and every user and stream
CozeChatRequests ==
    [model : Models, has_messages : {TRUE}, messages : MessageLists,
     user : {NoKey}, stream : {NoKey}, max_tokens : {NoKey}]
    \cup [model : {DefaultRequest.model}, has_messages : {TRUE}, messages : MessageLists,
          user : {NoKey, "u1"}, stream : {NoKey, "true", "false"}, max_tokens : {NoKey}]
    \cup {ChatRequest(m, FALSE, <<>>, NoKey, NoKey, NoKey) : m \in Models}

\* the requests given to the Anthropic and Google conversions
ClientChatRequests ==
    [model : {<<"abc123">>}, has_messages : {TRUE}, messages : MessageLists,
     user : {NoKey}, stream : {NoKey}, max_tokens : {NoKey, "100"}]
    \cup {ChatRequest(<<"abc123">>, FALSE, <<>>, NoKey, NoKey, mt) : mt \in {NoKey, "100"}}

\* what a conversion gives: the exception raised (or None) and the value returned
Returned(value) == [raised |-> None, value |-> value]

Raised(exception) == [raised |-> exception, value |-> <<>>]

\* the request returned unchanged
AsIs(req) == [kind |-> "as_is", request |-> req]

\* the earlier messages, the latest first
RECURSIVE ChatHistoryReversed(_)
ChatHistoryReversed(messages) ==
    IF Len(messages) <= 1 THEN <<>>
    ELSE ChatHistoryReversed(Tail(messages))
         \o <<Message(Head(messages).role, Head(messages).content)>>

\* lines 53-60: the earlier messages, role and content
RECURSIVE ChatHistory(_)
ChatHistory(messages) ==
    IF Len(messages) <= 1 THEN <<>>
    ELSE <<Message(Head(messages).role, Head(messages).content)>> \o ChatHistory(Tail(messages))

\* lines 53-55: the content of the last message ("" for an empty list)
Query(messages) == IF messages = <<>> THEN "" ELSE messages[Len(messages)].content

\* CozeAdapter.transform_request
transform_request(ep, req) ==
    IF ep = "/chat/completions" /\ req.has_messages
    THEN IF BotId(req.model) = <<>> THEN Raised("ValueError")
         ELSE Returned([kind |-> "coze",
                        bot_id |-> BotId(req.model),
                        user_id |-> IF req.user = NoKey THEN "default_user" ELSE req.user,
                        additional_messages |->
                            ChatHistory(req.messages) \o <<Message("user", Query(req.messages))>>,
                        stream |-> IF req.stream = NoKey THEN "false" ELSE req.stream])
    ELSE Returned(AsIs(req))

IsSystem(msg) == msg.role = "system"

FirstSystemMessage(messages) ==
    LET sys == SelectSeq(messages, IsSystem)
    IN  IF sys = <<>> THEN None ELSE Head(sys).content

\* lines 185-192: system_message after the loop (None without a system message)
SystemMessage(messages) ==
    LET sys == SelectSeq(messages, IsSystem)
    IN  IF sys = <<>> THEN None ELSE sys[Len(sys)].content

\* AnthropicClient._convert_to_anthropic_format; without "messages" the local
\* anthropic_data is read before assignment
convert_to_anthropic_format(req) ==
    IF req.has_messages
    THEN Returned([kind |-> "anthropic",
                   model |-> req.model,
                   messages |-> SelectSeq(req.messages, LAMBDA msg : msg.role # "system"),
                   system |-> IF SystemMessage(req.messages) \notin {None, ""}
                              THEN SystemMessage(req.messages) ELSE NoKey,
                   max_tokens |-> IF req.max_tokens = NoKey THEN "4096" ELSE req.max_tokens])
    ELSE Raised("UnboundLocalError")

\* line 332
google_role(role) == IF role = "user" THEN "user" ELSE "model"

GoogleContent(msg) == [role |-> google_role(msg.role), parts |-> <<[text |-> msg.content]>>]

\* GoogleClient._convert_to_google_format
convert_to_google_format(req) ==
    IF req.has_messages
    THEN Returned([kind |-> "google",
                   contents |-> [i \in DOMAIN req.messages |-> GoogleContent(req.messages[i])],
                   maxOutputTokens |-> req.max_tokens])
    ELSE Returned(AsIs(req))

(* Provider responses *)

\* an OpenAI chat.completion with its one choice
Completion(id, content, finish_reason) ==
    [kind |-> "chat.completion", id |-> id,
     choices |-> <<[role |-> "assistant", content |-> content, finish_reason |-> finish_reason]>>]

CozeMessage(type, role, content) == [type |-> type, role |-> role, content |-> content]

\* the messages of a Coze response
CozeMessageLists ==
    { <<>>,
      <<CozeMessage(NoKey, "assistant", "reply")>>,
      <<CozeMessage("answer", "assistant", "reply")>>,
      <<CozeMessage("answer", "assistant", "")>>,
      <<CozeMessage("follow_up", "assistant", "more"), CozeMessage("answer", "assistant", "reply")>> }

\* Coze responses: with or without "messages", "answer", "conversation_id"
CozeResponses ==
    {[has_messages |-> TRUE, messages |-> ms, answer |-> a, conversation_id |-> c] :
        ms \in CozeMessageLists, a \in {NoKey, "reply"}, c \in {NoKey, "c1"}}
    \cup {[has_messages |-> FALSE, messages |-> <<>>, answer |-> a, conversation_id |-> c] :
        a \in {NoKey, "reply"}, c \in {NoKey, "c1"}}

\* _transform_chat_response lines 95-101: the content of the first message of type "answer"
response_text(resp) ==
    LET answers == SelectSeq(resp.messages, LAMBDA msg : msg.type = "answer")
    IN  IF answers = <<>> THEN "" ELSE Head(answers).content

\* CozeAdapter.transform_response
transform_response(ep, resp) ==
    IF ep = "/chat/completions"
    THEN Returned(Completion("chatcmpl-" \o (IF resp.conversation_id = NoKey THEN "unknown"
                                             ELSE resp.conversation_id),
                             response_text(resp), "stop"))
    ELSE Returned(AsIs(resp))

\* Anthropic responses: content absent, a list of blocks (the text of each, NoKey
\* for a block without text) or a string
AnthropicResponses ==
    [content_kind : {"absent", "list", "string"},
     blocks : {<<>>, <<"reply">>, <<NoKey>>},
     stop_reason : {NoKey, "end_turn"}]

\* AnthropicClient._convert_from_anthropic_format
convert_from_anthropic_format(resp) ==
    IF resp.content_kind = "list"
    THEN Returned(Completion("msg",
                             IF resp.blocks = <<>> \/ Head(resp.blocks) = NoKey THEN ""
                             ELSE Head(resp.blocks),
                             IF resp.stop_reason = NoKey THEN "stop" ELSE resp.stop_reason))
    ELSE Returned(AsIs(resp))

\* a candidate of a Google response.  parts_kind: "no_content" (no content),
\* "no_parts" (content without parts), "empty" (parts: []), "texts"
Candidate(parts_kind, txt, finishReason) ==
    [parts_kind |-> parts_kind, text |-> txt, finishReason |-> finishReason]

Candidates ==
    {Candidate(k, "", f) : k \in {"no_content", "no_parts", "empty"}, f \in {NoKey, "STOP", "MAX_TOKENS"}}
    \cup {Candidate("texts", "reply", f) : f \in {NoKey, "STOP", "MAX_TOKENS"}}

GoogleResponses ==
    {[has_candidates |-> TRUE, candidates |-> cs] : cs \in {<<>>} \cup {<<c>> : c \in Candidates}}
    \cup {[has_candidates |-> FALSE, candidates |-> <<>>]}

\* str.lower() of a finishReason or of a header name
Lower(t) ==
    CASE t = "STOP" -> "stop"
      [] t = "MAX_TOKENS" -> "max_tokens"
      [] t = "Authorization" -> "authorization"
      [] t = "Host" -> "host"
      [] t = "Content-Type" -> "content-type"
      [] t = "Accept" -> "accept"
      [] t = "X-Trace" -> "x-trace"
      [] t = "X-Api-Key" -> "x-api-key"
      [] OTHER -> t

\* GoogleClient._convert_from_google_format
convert_from_google_format(resp) ==
    IF resp.has_candidates
    THEN LET candidate == IF resp.candidates # <<>> THEN Head(resp.candidates)
                          ELSE Candidate("no_content", "", NoKey)
         IN  IF candidate.parts_kind = "empty" THEN Raised("IndexError")
             ELSE Returned(Completion("google", candidate.text,
                                      Lower(IF candidate.finishReason = NoKey THEN "STOP"
                                            ELSE candidate.finishReason)))
    ELSE Returned(AsIs(resp))

(* The headers sent upstream.  A dict of headers is a function from the      *)
(* names it holds to their values; names are case-sensitive keys.           *)

\* the names a caller's headers may hold
HeaderNames ==
    {"Authorization", "authorization", "Host", "content-length", "Content-Type", "content-type",
     "Accept", "accept", "X-Api-Key", "x-api-key", "X-Trace"}

\* the value a caller gives to a header
CallerValue(n) ==
    CASE Lower(n) = "authorization" -> <<"Bearer ", "caller-key">>
      [] Lower(n) = "content-type" -> <<"text/plain">>
      [] Lower(n) = "x-api-key" -> <<"caller-key">>
      [] OTHER -> <<"caller-value">>

\* the headers argument: None and {} (no names) up to all the names
CallerHeaders == {[n \in S |-> CallerValue(n)] : S \in SUBSET HeaderNames}

\* d.update(e)
Update(d, e) == [n \in DOMAIN d \cup DOMAIN e |-> IF n \in DOMAIN e THEN e[n] ELSE d[n]]

\* BasePlatformAdapter.prepare_headers (default_headers is {}) and
\* BasePlatformClient.prepare_headers
prepare_headers(default_headers, headers) ==
    Update(default_headers,
           [n \in {k \in DOMAIN headers :
                      Lower(k) \notin {"authorization", "host", "content-length"}}
               |-> headers[n]])

\* the dict of lines 134-137 (CozeAdapter.make_request) and of OpenAIClient
\* lines 72-75 and 111-114
RequestHeaders(api_key) ==
    [n \in {"Authorization", "Content-Type"} |->
        IF n = "Authorization" THEN <<"Bearer ", api_key>> ELSE <<"application/json">>]

\* the dict of lines 204-210 (CozeAdapter.make_stream_request)
StreamRequestHeaders(api_key) ==
    [n \in {"Authorization", "Content-Type", "Accept", "Cache-Control", "Connection"} |->
        CASE n = "Authorization" -> <<"Bearer ", api_key>>
          [] n = "Content-Type" -> <<"application/json">>
          [] n = "Accept" -> <<"text/event-stream">>
          [] n = "Cache-Control" -> <<"no-cache">>
          [] n = "Connection" -> <<"keep-alive">>]

\* request_headers of CozeAdapter.make_request
coze_request_headers(a) == Update(prepare_headers(<<>>, a.headers), RequestHeaders(a.api_key))

\* request_headers of CozeAdapter.make_stream_request
coze_stream_request_headers(a) ==
    Update(prepare_headers(<<>>, a.headers), StreamRequestHeaders(a.api_key))

\* request_headers of OpenAIClient.make_request and make_stream_request
openai_request_headers(a) ==
    Update(prepare_headers(a.default_headers, a.headers), RequestHeaders(a.api_key))

\* request_headers of AnthropicClient.make_request and make_stream_request
\* (lines 147-152, 253-258)
anthropic_request_headers(a) ==
    Update(prepare_headers(a.default_headers, a.headers),
           [n \in {"x-api-key", "Content-Type", "anthropic-version"} |->
               CASE n = "x-api-key" -> <<a.api_key>>
                 [] n = "Content-Type" -> <<"application/json">>
                 [] n = "anthropic-version" -> <<"2023-06-01">>])

\* request_headers of GoogleClient.make_request (lines 296-299); the api_key goes
\* into the URL parameters (line 290), not into a header
google_request_headers(a) ==
    Update(prepare_headers(a.default_headers, a.headers),
           [n \in {"Content-Type"} |-> <<"application/json">>])

\* the calls that build the headers of an upstream request
HeaderCalls ==
    {"coze_request_headers", "coze_stream_request_headers", "openai_request_headers",
     "anthropic_request_headers", "google_request_headers"}

\* the client or adapter of a call that sends headers (its api_key and, for a
\* legacy client, platform_config.get("default_headers", {})) and the caller's headers
HeaderArguments(f) ==
    [api_key : {"key-a"},
     default_headers : IF f \in {"coze_request_headers", "coze_stream_request_headers"}
                       THEN {<<>>}
                       ELSE {[n \in S |-> <<"org-1">>] : S \in {{}, {"X-Org"}}},
     headers : CallerHeaders]

(* One call of one conversion *)

Conversions ==
    {"transform_request", "convert_to_anthropic_format", "convert_to_google_format",
     "transform_response", "convert_from_anthropic_format", "convert_from_google_format"}
    \cup HeaderCalls

\* the arguments a conversion is called with
Arguments(f) ==
    CASE f = "transform_request" -> CozeChatRequests
      [] f \in {"convert_to_anthropic_format", "convert_to_google_format"} -> ClientChatRequests
      [] f = "transform_response" -> CozeResponses
      [] f = "convert_from_anthropic_format" -> AnthropicResponses
      [] f = "convert_from_google_format" -> GoogleResponses
      [] f \in HeaderCalls -> HeaderArguments(f)

ConversionInit ==
    /\ call = "conversion"
    /\ pc = "call"
    /\ op \in Conversions
    /\ arg \in Arguments(op)
    /\ ret = None
    /\ adapter = CozeAdapter(TRUE)
    /\ config = ConfigOf(adapter)
    /\ endpoint = "/chat/completions"
    /\ request = DefaultRequest
    /\ status = 0
    /\ json = None
    /\ text = <<>>
    /\ buffer = <<>>
    /\ conversation_id = None
    /\ chat_id = None
    /\ has_yielded_start = FALSE
    /\ current_event = <<>>
    /\ held_result = NoChunk
    /\ out = <<>>
    /\ escaped = None
    /\ fault = None
    /\ fetched = <<>>
    /\ transformed = FALSE
    /\ instance = 1
    /\ bot_id = NoBotIds
    /\ tasks = <<>>
    /\ proxies = <<>>

\* the call of conversion f returns: ret holds what f gives for arg
Convert(f, result) ==
    /\ call = "conversion"
    /\ pc = "call"
    /\ op = f
    /\ ret' = result
    /\ pc' = "done"
    /\ UNCHANGED <<call, adapter, endpoint, request, status, json, out, escaped, fault,
                   transformed, config, op, arg, instance, tasks, proxies>>
    /\ UNCHANGED StreamVars

\* transform_request stores the bot id in self.bot_id (lines 38-42) before it
\* returns or raises
CozeTransformRequest ==
    /\ Convert("transform_request", transform_request(endpoint, arg))
    /\ bot_id' = IF endpoint = "/chat/completions" /\ arg.has_messages
                  THEN [bot_id EXCEPT ![instance] = BotId(arg.model)]
                  ELSE bot_id

AnthropicConvertTo == Convert("convert_to_anthropic_format", convert_to_anthropic_format(arg)) /\ UNCHANGED bot_id

GoogleConvertTo == Convert("convert_to_google_format", convert_to_google_format(arg)) /\ UNCHANGED bot_id

CozeTransformResponse == Convert("transform_response", transform_response(endpoint, arg)) /\ UNCHANGED bot_id

AnthropicConvertFrom == Convert("convert_from_anthropic_format", convert_from_anthropic_format(arg)) /\ UNCHANGED bot_id

GoogleConvertFrom == Convert("convert_from_google_format", convert_from_google_format(arg)) /\ UNCHANGED bot_id

CozeRequestHeaders == Convert("coze_request_headers", coze_request_headers(arg)) /\ UNCHANGED bot_id

CozeStreamRequestHeaders == Convert("coze_stream_request_headers", coze_stream_request_headers(arg)) /\ UNCHANGED bot_id

OpenAIRequestHeaders == Convert("openai_request_headers", openai_request_headers(arg)) /\ UNCHANGED bot_id

AnthropicRequestHeaders == Convert("anthropic_request_headers", anthropic_request_headers(arg)) /\ UNCHANGED bot_id

GoogleRequestHeaders == Convert("google_request_headers", google_request_headers(arg)) /\ UNCHANGED bot_id

ConversionNext ==
    \/ CozeTransformRequest
    \/ AnthropicConvertTo
    \/ GoogleConvertTo
    \/ CozeTransformResponse
    \/ AnthropicConvertFrom
    \/ GoogleConvertFrom
    \/ CozeRequestHeaders
    \/ CozeStreamRequestHeaders
    \/ OpenAIRequestHeaders
    \/ AnthropicRequestHeaders
    \/ GoogleRequestHeaders

ConversionSpec == ConversionInit /\ [][ConversionNext]_vars

-----------------------------------------------------------------------------
(* Properties *)

Streaming == call \in {"direct", "recovery", "stream"}

Kinds(items) == [i \in DOMAIN items |-> items[i].kind]

Range(f) == {f[i] : i \in DOMAIN f}

Last(items) == items[Len(items)]

\* the run of make_stream_request that receives t as a single fragment
OneShot(t) == Feed(Frame(<<>>, None, None, FALSE, <<>>, <<>>, Consumer), t)

\* the chunk the recovery fetch added, if it recovered a text
Recovered(kid) ==
    IF fetched # <<>> /\ AssistantContent(Last(fetched)) # None
    THEN <<Chunk("content", kid, AssistantContent(Last(fetched)))>>
    ELSE <<>>

\* C1: fragment boundaries never affect the output of make_stream_request.
\* However the text received so far was split into fragments, once the
\* generator has processed it the chunks yielded, the partial line kept and
\* the ids observed are those of the run that receives the same text as one
\* fragment, and while it is still suspended at a yield the chunks yielded so
\* far are the first of that run's; a finished session has yielded what that
\* run yields, followed by the same recovered chunk.
C1_FragmentBoundariesDoNotMatter ==
    (Streaming /\ status # 0 /\ status < 400 /\ fault \in {None, "line"}) =>
        LET ref == OneShot(text)
            ref_out == IF ref.raised THEN Append(ref.yields, StreamInternalError) ELSE ref.yields
        IN  /\ fault = "line" => ref.raised
            /\ pc # "yield" => (ref.raised => fault = "line")
            /\ pc = "yield" =>
                  /\ Len(out) <= Len(ref.yields)
                  /\ out = SubSeq(ref.yields, 1, Len(out))
            /\ pc = "read" =>
                  /\ out = ref_out
                  /\ buffer = ref.buffer
                  /\ conversation_id = ref.conversation_id
                  /\ chat_id = ref.chat_id
                  /\ has_yielded_start = ref.has_yielded_start
            /\ pc = "fetch" =>
                  /\ out = ref_out
                  /\ Truthy(ref.conversation_id) /\ Truthy(ref.chat_id)
            /\ pc = "done" => out = ref_out \o Recovered(ref.chat_id)

\* a fragment ended between "data: " and the record's JSON, after two chunks were yielded
C1_Witness ==
    /\ call = "direct"
    /\ pc = "read"
    /\ buffer = <<"data:", " ">>
    /\ Len(out) >= 2

ContentAt(i) == out[i].kind = "content"

StartAt(i) == out[i].kind = "start"

IsNormalChunk(item) == item.kind \in {"start", "delta", "content", "stop"}

\* C2 (as claimed): a finished session that yielded a content chunk yielded
\* exactly one start chunk, and yielded it before every content chunk.
C2_OneStartBeforeContent ==
    (Streaming /\ pc = "done" /\ status = 200 /\ fault = None /\ \E i \in DOMAIN out : ContentAt(i)) =>
        /\ Cardinality({i \in DOMAIN out : StartAt(i)}) = 1
        /\ \A i \in DOMAIN out : ContentAt(i) => \E j \in 1..(i - 1) : StartAt(j)

\* C3 (as claimed): the error object of a failed record is terminal: no
\* normal chunk (start, empty delta, content, stop) is yielded after it.
C3_FailedIsTerminal ==
    (Streaming /\ status = 200) =>
        \A i, j \in DOMAIN out :
            (i < j /\ out[i].type = "coze_error") => ~IsNormalChunk(out[j])

SessionErrors == {i \in DOMAIN out : out[i].type \in {"timeout_error", "internal_error"}}

EndsWithTheOnly(type) ==
    /\ out # <<>>
    /\ Last(out).kind = "error"
    /\ Last(out).type = type
    /\ SessionErrors = {Len(out)}

\* C4 (as claimed): a timeout at any point of a streaming call, the recovery
\* fetch included, ends the stream with exactly one timeout_error payload, and
\* any other exception with exactly one internal_error payload.
C4_TimeoutAnywhereYieldsTimeoutError ==
    (Streaming /\ pc = "done" /\ status \in {0, 200}) =>
        /\ (fault = "timeout" \/ "timeout" \in Range(fetched)) => EndsWithTheOnly("timeout_error")
        /\ fault \in {"error", "line"} => EndsWithTheOnly("internal_error")
        /\ fault = "transform_request" => EndsWithTheOnly("internal_error")

\* C4 (amended): a timeout at stream open or while the stream is read ends the
\* stream with exactly one timeout_error payload, which is the last item; any
\* other exception there (transport error, an exception raised by a line,
\* transform_request raising in process_stream_request) ends it with exactly
\* one internal_error payload, the last item.  Timeouts and exceptions of the
\* recovery fetch are swallowed: without such a fault no timeout_error or
\* internal_error payload is yielded at all.
C4_TimeoutAndInternalError ==
    (Streaming /\ pc = "done") =>
        /\ fault = "timeout" => EndsWithTheOnly("timeout_error")
        /\ fault \in {"error", "line"} => EndsWithTheOnly("internal_error")
        /\ fault = "transform_request" => EndsWithTheOnly("internal_error")
        /\ fault = None => SessionErrors = {}

\* the read timed out after three chunks had been yielded
C4_Witness ==
    /\ Streaming
    /\ pc = "done"
    /\ fault = "timeout"
    /\ Len(out) >= 4
    /\ Last(out).type = "timeout_error"

\* C5: every run of make_stream_request and of process_stream_request ends,
\* whatever the upstream does (non-2xx status, timeout, connection error, an
\* exception while processing a line, a failing recovery fetch).
C5_StreamTerminates == Streaming => <>(pc = "done")

\* a stream that had sent a record ended by a transport fault
C5_Witness ==
    /\ Streaming
    /\ pc = "done"
    /\ fault \in {"timeout", "error"}
    /\ text # <<>>

\* C6 (as claimed): a session whose stream-open request was answered with a
\* non-2xx status has yielded exactly the platform_error payload carrying that
\* status: no line was read, no start chunk yielded, no recovery fetch made.
C6_Non2xxYieldsPlatformError ==
    (Streaming /\ pc = "done" /\ fault = None /\ status # 0 /\ status \notin 200..299) =>
        /\ out = <<PlatformError(status)>>
        /\ text = <<>>
        /\ fetched = <<>>

\* C7 (as claimed): a start chunk is the first item, and once the stop chunk
\* has been yielded no chunk carrying delta.role or delta.content follows.
C7_StartFirstStopLast ==
    (Streaming /\ status = 200 /\ fault = None) =>
        /\ \A i \in DOMAIN out : StartAt(i) => i = 1
        /\ \A i, j \in DOMAIN out :
              (i < j /\ out[i].kind = "stop") => out[j].kind \notin {"start", "content"}

\* the records of a body: the payloads of its data: lines, when every line is
\* complete and is blank, an event: line or a data: line
IsRecordLine(line) == line # <<>> /\ Head(line) = "data:"

Records(t) ==
    LET lines == [i \in DOMAIN SplitLines(t) |-> Strip(SplitLines(t)[i])]
        data == SelectSeq(lines, IsRecordLine)
    IN  [i \in DOMAIN data |-> Strip(Tail(data[i]))]

IsRecordStream(t) ==
    /\ LastLine(t) = <<>>
    /\ \A i \in DOMAIN SplitLines(t) :
          LET line == Strip(SplitLines(t)[i])
          IN  line = <<>> \/ Head(line) \in {"event:", "data:"}

\* C8: a stream whose data records are in_progress, in_progress, completed
\* normalizes to exactly four chunks: start, empty delta, empty delta, stop.
C8_ThreeRecordScenario ==
    (/\ Streaming
     /\ pc = "done"
     /\ status = 200
     /\ fault = None
     /\ IsRecordStream(text)
     /\ Records(text) = <<<<JInProgress>>, <<JInProgress>>, <<JCompleted>>>>) =>
        out = <<Chunk("start", "coze-unknown", ""),
                Chunk("delta", "coze-unknown", ""),
                Chunk("delta", "coze-unknown", ""),
                Chunk("stop", "coze-unknown", "")>>

\* the three records arrived and the session finished with four chunks
C8_Witness ==
    /\ call = "direct"
    /\ pc = "done"
    /\ status = 200
    /\ fault = None
    /\ IsRecordStream(text)
    /\ Records(text) = <<<<JInProgress>>, <<JInProgress>>, <<JCompleted>>>>
    /\ Len(out) = 4

\* C9 (as claimed): no exception propagates from process_request: every
\* finished call has returned one payload.
C9_NothingEscapesProcessRequest ==
    (call = "request" /\ pc = "done") => (escaped = None /\ Len(out) = 1)

\* C10 (as claimed): a non-streaming call whose upstream answered with a
\* non-2xx status s returns the platform_error payload with code s, without
\* applying transform_response, and nothing escapes.
C10_Non2xxReturnsPlatformError ==
    (call = "request" /\ pc = "done" /\ status # 0 /\ status \notin 200..299) =>
        /\ out = <<PlatformError(status)>>
        /\ ~transformed
        /\ escaped = None

\* C11 (as claimed): process_request classifies a failure by its cause: a
\* request whose bot id cannot be derived returns error.type
\* "invalid_request_error", an upstream timeout returns error.type "timeout_error".
C11_FailuresClassifiedByCause ==
    (call = "request" /\ pc = "done" /\ escaped = None) =>
        /\ fault = "transform_request" => Last(out).type = "invalid_request_error"
        /\ fault = "timeout" => Last(out).type = "timeout_error"

\* C13 (as claimed): with an adapter that has no make_stream_request, every
\* successful upstream response (2xx with a JSON body that transform_response
\* accepts) is yielded as exactly three chunks: start, content, stop.
C13_FallbackYieldsThreeChunks ==
    (call = "fallback" /\ pc = "done" /\ status \in 200..299 /\ json # None /\ fault = None) =>
        Kinds(out) = <<"start", "content", "stop">>

NonEmpty(v) == v # NoKey /\ v # ""

\* what initialize_adapter(arg) is to do: succeed exactly for a registered type
\* and a config with non-empty api_key and base_url
ShouldInitialize(a) ==
    /\ a.platform_type \in RegisteredPlatforms
    /\ "api_key" \in DOMAIN a.config
    /\ NonEmpty(a.config.api_key)
    /\ NonEmpty(a.config.base_url)

\* C12: initialize_adapter(type, config) returns true and makes a new adapter
\* built from config the active one if and only if type is registered and
\* config has a non-empty api_key and base_url; a call that returns false
\* leaves the active adapter as it was; so the active adapter, if there is
\* one, always has a non-empty api_key and base_url.
C12_InitializeAdapter ==
    /\ [](call = "initialize" =>
            /\ op = "initialize_adapter" =>
                  /\ ret <=> ShouldInitialize(arg)
                  /\ ret => (adapter.set /\ config = arg.config /\ adapter.enabled = arg.config.enabled)
            /\ adapter.set => (NonEmpty(config.api_key) /\ NonEmpty(config.base_url)))
    /\ [][call = "initialize" => (~ret' => (adapter' = adapter /\ (adapter.set => config' = config)))]_vars

\* a call with an incomplete config failed while the adapter of an earlier call stays active
C12_Witness ==
    /\ call = "initialize"
    /\ op = "initialize_adapter"
    /\ ~ret
    /\ arg.platform_type = "coze" /\ "api_key" \in DOMAIN arg.config
    /\ arg.config.api_key = "key-a" /\ arg.config.base_url = ""
    /\ adapter.set
    /\ config.api_key = "key-b"

\* C30: a call of initialize_adapter that fails (a type that is not
\* registered, a config without api_key or base_url, an exception in the
\* adapter's constructor) leaves the active adapter as it was: the current
\* adapter is the same object, with the same config, before and after, so
\* process_request, which reads it, keeps using it.
C30_FailedInitializeKeepsAdapter ==
    [][(call = "initialize" /\ op' = "initialize_adapter" /\ ~ShouldInitialize(arg')) =>
          /\ ~ret'
          /\ instance' = instance
          /\ adapter' = adapter
          /\ config' = config]_vars

\* the constructor raised for a config that is not a dict while an adapter was active
C30_Witness ==
    /\ call = "initialize"
    /\ op = "initialize_adapter"
    /\ arg.platform_type = "coze"
    /\ arg.config = NotADict
    /\ ~ret
    /\ instance = 1
    /\ adapter.set

(* The conversions *)

Converted(f) == call = "conversion" /\ pc = "done" /\ op = f

IsUser(msg) == msg.role = "user"

\* the content of the last user-role message of a list that has one
LastUserContent(messages) ==
    LET users == SelectSeq(messages, IsUser) IN users[Len(users)].content

\* the provider's primary query field of a transformed request: the content of
\* the final additional_messages entry (Coze), of the last kept message
\* (Anthropic), parts[0].text of the last contents entry (Google); NoKey when
\* the transformed request has no such entry
PrimaryQuery(value) ==
    CASE value.kind = "coze" -> Last(value.additional_messages).content
      [] value.kind = "anthropic" ->
            IF value.messages = <<>> THEN NoKey ELSE Last(value.messages).content
      [] value.kind = "google" -> Last(value.contents).parts[1].text

RequestConversions == {"transform_request", "convert_to_anthropic_format", "convert_to_google_format"}

\* a chat request with a non-empty messages list was converted without an exception
ChatConverted ==
    /\ call = "conversion" /\ pc = "done" /\ op \in RequestConversions
    /\ arg.has_messages /\ arg.messages # <<>>
    /\ ret.raised = None

\* C14 (as claimed): for every provider, the transformed request of a chat
\* request with a non-empty messages list carries the content of the last
\* user-role message in the provider's primary query field.
C14_LastUserMessageIsQuery ==
    (ChatConverted /\ \E i \in DOMAIN arg.messages : IsUser(arg.messages[i])) =>
        PrimaryQuery(ret.value) = LastUserContent(arg.messages)

\* a response with none of the fields its provider's conversion recognizes
Unrecognized ==
    CASE op = "transform_response" -> ~arg.has_messages /\ arg.answer = NoKey
      [] op = "convert_from_anthropic_format" -> arg.content_kind = "absent"
      [] op = "convert_from_google_format" -> ~arg.has_candidates
      [] OTHER -> FALSE

ResponseConversions == {"transform_response", "convert_from_anthropic_format", "convert_from_google_format"}

\* C15 (as claimed): for every provider, converting a response with none of
\* the recognized fields never raises and gives a response whose choices list
\* has exactly one element, with finish_reason "stop".
C15_UnrecognizedGivesFallback ==
    (call = "conversion" /\ pc = "done" /\ op \in ResponseConversions /\ Unrecognized) =>
        /\ ret.raised = None
        /\ ret.value.kind = "chat.completion"
        /\ Len(ret.value.choices) = 1
        /\ ret.value.choices[1].finish_reason = "stop"

\* C16: bot-id derivation of transform_request for a chat request: "bot-X"
\* with non-empty X gives bot_id X, a model without the prefix gives the whole
\* model, and a model that leaves an empty id ("" or "bot-") raises the
\* validation error and gives no Coze request.
C16_BotIdDerivation ==
    (Converted("transform_request") /\ arg.has_messages) =>
        /\ arg.model = <<"bot-", "abc123">> =>
              (ret.raised = None /\ ret.value.kind = "coze" /\ ret.value.bot_id = <<"abc123">>)
        /\ arg.model = <<"abc123">> =>
              (ret.raised = None /\ ret.value.kind = "coze" /\ ret.value.bot_id = <<"abc123">>)
        /\ arg.model \in {<<>>, <<"bot-">>} => (ret.raised = "ValueError" /\ ret.value = <<>>)

\* the model "bot-" was rejected
C16_Witness ==
    /\ Converted("transform_request")
    /\ arg.has_messages
    /\ arg.model = <<"bot-">>
    /\ ret.raised = "ValueError"

\* C17: for a Coze chat request with n >= 1 messages, additional_messages has
\* length n: the first n-1 entries are the earlier messages' role and content
\* in order, the last is {role user, content of the last message}; user_id is
\* request.user or "default_user" without one; stream is request.stream or
\* false without one.
C17_CozeRequestShape ==
    (Converted("transform_request") /\ arg.has_messages /\ arg.messages # <<>> /\ ret.raised = None) =>
        LET n == Len(arg.messages)
            am == ret.value.additional_messages
        IN  /\ Len(am) = n
            /\ \A i \in 1..(n - 1) :
                  am[i].role = arg.messages[i].role /\ am[i].content = arg.messages[i].content
            /\ am[n].role = "user" /\ am[n].content = arg.messages[n].content
            /\ ret.value.user_id = (IF arg.user = NoKey THEN "default_user" ELSE arg.user)
            /\ ret.value.stream = (IF arg.stream = NoKey THEN "false" ELSE arg.stream)

\* a streaming request of user u1 with two different earlier turns, a user's
\* and an assistant's, before an assistant's last message
C17_Witness ==
    /\ Converted("transform_request")
    /\ ret.raised = None
    /\ arg.has_messages
    /\ arg.messages = <<Message("user", "Hi"), Message("assistant", "Be terse"),
                        Message("assistant", "Hi")>>
    /\ arg.user = "u1"
    /\ arg.stream = "true"
    /\ ret.value.additional_messages = <<Message("user", "Hi"), Message("assistant", "Be terse"),
                                         Message("user", "Hi")>>

\* C18 (as claimed): transform_response returns the bot's reply as
\* choices[0].message.content when the Coze response carries it as a messages
\* entry of role assistant without a type field, or as a top-level answer.
C18_ReplyTextOfOtherShapes ==
    Converted("transform_response") =>
        /\ (arg.messages # <<>> /\ Head(arg.messages).type = NoKey
            /\ Head(arg.messages).role = "assistant") =>
              ret.value.choices[1].content = Head(arg.messages).content
        /\ (arg.messages = <<>> /\ arg.answer # NoKey) =>
              ret.value.choices[1].content = arg.answer

\* the role the Google conversion is to give: model for assistant, user for the rest
SpecifiedGoogleRole(role) == IF role = "assistant" THEN "model" ELSE "user"

\* C19 (as claimed): the Google conversion maps every message, in order, to
\* {role, parts: [{text: content}]} with role "model" exactly for assistant
\* messages and "user" for every other role, and moves max_tokens into
\* generationConfig.maxOutputTokens.
C19_GoogleRequestShape ==
    (Converted("convert_to_google_format") /\ arg.has_messages) =>
        /\ ret.raised = None
        /\ Len(ret.value.contents) = Len(arg.messages)
        /\ \A i \in DOMAIN arg.messages :
              /\ ret.value.contents[i].role = SpecifiedGoogleRole(arg.messages[i].role)
              /\ ret.value.contents[i].parts = <<[text |-> arg.messages[i].content]>>
        /\ ret.value.maxOutputTokens = arg.max_tokens

\* the indices of the messages that are not system messages, in order
RECURSIVE KeptIndices(_, _)
KeptIndices(messages, i) ==
    IF i > Len(messages) THEN <<>>
    ELSE (IF messages[i].role = "system" THEN <<>> ELSE <<i>>) \o KeptIndices(messages, i + 1)

\* C20: the Anthropic conversion of a chat request removes every system-role
\* message, keeps the other messages unchanged and in order, carries the
\* system content in the top-level system field (the content of the last
\* system message; the field is left out when there is no system message or
\* that content is empty), and sets max_tokens to 4096 exactly when the
\* request supplies none.
C20_AnthropicRequestShape ==
    (Converted("convert_to_anthropic_format") /\ arg.has_messages) =>
        LET kept == KeptIndices(arg.messages, 1)
            systems == {i \in DOMAIN arg.messages : arg.messages[i].role = "system"}
        IN  /\ ret.raised = None
            /\ Len(ret.value.messages) = Len(kept)
            /\ \A k \in DOMAIN kept : ret.value.messages[k] = arg.messages[kept[k]]
            /\ \A k \in DOMAIN ret.value.messages : ret.value.messages[k].role # "system"
            /\ systems = {} => ret.value.system = NoKey
            /\ systems # {} =>
                  LET last == CHOOSE i \in systems : \A j \in systems : j <= i
                  IN  ret.value.system =
                        (IF arg.messages[last].content = "" THEN NoKey ELSE arg.messages[last].content)
            /\ arg.max_tokens = NoKey => ret.value.max_tokens = "4096"
            /\ arg.max_tokens # NoKey => ret.value.max_tokens = arg.max_tokens

\* the scenario: system "Be terse", user "Hi", no max_tokens
C20_Witness ==
    /\ Converted("convert_to_anthropic_format")
    /\ arg.has_messages
    /\ arg.messages = <<Message("system", "Be terse"), Message("user", "Hi")>>
    /\ arg.max_tokens = NoKey
    /\ ret.raised = None
    /\ ret.value.system = "Be terse"
    /\ ret.value.messages = <<Message("user", "Hi")>>
    /\ ret.value.max_tokens = "4096"

(* The headers sent upstream *)

HeadersSent == call = "conversion" /\ pc = "done" /\ op \in HeaderCalls

ConflictingNames == {"authorization", "host", "content-length"}

\* the header that carries the credential of a call: Authorization: Bearer
\* <api_key> (Coze, OpenAI), x-api-key: <api_key> (Anthropic); Google's
\* credential is a URL parameter
CredentialHeader(f) ==
    CASE f = "anthropic_request_headers" -> [name |-> "x-api-key", value |-> <<arg.api_key>>]
      [] f = "google_request_headers" -> [name |-> NoKey, value |-> <<>>]
      [] OTHER -> [name |-> "Authorization", value |-> <<"Bearer ", arg.api_key>>]

\* the credential sent is the one built from the configured api_key: every
\* header sent under the credential's name, in any letter case, holds it
CredentialIsConfigured ==
    LET credential == CredentialHeader(op)
    IN  credential.name # NoKey =>
            /\ credential.name \in DOMAIN ret
            /\ \A n \in DOMAIN ret :
                  Lower(n) = Lower(credential.name) => ret[n] = credential.value

\* C21 (as claimed): for any caller headers, the headers sent upstream contain
\* no caller-supplied Authorization, Host or Content-Length (names compared
\* without regard to case), every other caller header is sent with the
\* caller's value, and the credential sent is the one built from the
\* configured api_key, never a caller-supplied value.
C21_CallerHeadersPreserved ==
    HeadersSent =>
        /\ \A n \in DOMAIN ret :
              Lower(n) \in ConflictingNames =>
                  (n = "Authorization" /\ ret[n] = <<"Bearer ", arg.api_key>>)
        /\ \A n \in DOMAIN arg.headers :
              Lower(n) \notin ConflictingNames => (n \in DOMAIN ret /\ ret[n] = arg.headers[n])
        /\ CredentialIsConfigured

(* Requests in flight together *)

\* the adapter objects that ran the steps of task t
ServedBy(t) ==
    {tasks[t].transform_request_on, tasks[t].url_on, tasks[t].make_request_on,
     tasks[t].transform_response_on} \ {0}

\* C22: a request in flight while initialize_adapter runs is served entirely
\* by one adapter object: transform_request, the URL, make_request and
\* transform_response are never split across two objects.
C22_ServedByOneAdapter ==
    call = "serving" => \A t \in Tasks : Cardinality(ServedBy(t)) <= 1

\* C25: of two chat requests in flight together on the same adapter object,
\* each gets in the model field of its response or chunk the bot id of its
\* own model.
C25_ModelFieldIsOwnBot ==
    (call = "serving" /\ instance = 1) =>
        \A t \in Tasks : tasks[t].pc = "done" => tasks[t].model_field = BotId(tasks[t].model)

(* The proxy *)

\* C23: AdapterProxy.make_request terminates: its fallback path (create_client,
\* then the client's make_request) is taken at most once and ends in a legacy
\* client; AdapterProxy.make_request is never entered again from it.
C23_FallbackEndsInLegacyClient ==
    call = "proxy" =>
        /\ Len(proxies) <= 1
        /\ (pc = "done" /\ ret = "adapter") => ~Last(proxies).fallback_mode

(* Forwarding *)

\* what make_stream_request yields for the records to a caller that takes them all
RECURSIVE AdapterYields(_)
AdapterYields(records) ==
    IF records = <<>> THEN Frame(<<>>, None, None, FALSE, <<>>, <<>>, "direct")
    ELSE LET st == ProcessData(AdapterYields(SubSeq(records, 1, Len(records) - 1)), Last(records))
         IN  IF st.result # NoChunk THEN ResumeAfterStart(st) ELSE st

\* C24: process_stream_request forwards every chunk of the adapter, in order,
\* and stops only at an error payload: a normal chunk is never taken for an
\* error because of the text it carries (content that has the word "error").
C24_StopsOnlyAtErrorPayload ==
    call = "forward" =>
        /\ out = SubSeq(AdapterYields(arg).yields, 1, Len(out))
        /\ pc = "exhausted" => out = AdapterYields(arg).yields
        /\ pc = "returned" => Last(out).kind = "error"

(* Records that carry nothing *)

\* a data: line whose payload is empty, is not JSON, or is JSON but not an object
IsDroppedRecord(line) ==
    LET l == Strip(line)
    IN  /\ IsRecordLine(l)
        /\ Strip(Tail(l)) = <<>> \/ json_loads(Strip(Tail(l))).type # "object"

IsKeptLine(line) == ~IsDroppedRecord(line)

RECURSIVE JoinLines(_)
JoinLines(lines) ==
    IF Len(lines) = 0 THEN <<>>
    ELSE IF Len(lines) = 1 THEN lines[1]
    ELSE lines[1] \o <<"\n">> \o JoinLines(Tail(lines))

\* the text without its complete data: lines that carry nothing
WithoutDroppedRecords(t) ==
    LET lines == SplitLines(t)
    IN  JoinLines(SelectSeq(SubSeq(lines, 1, Len(lines) - 1), IsKeptLine) \o <<LastLine(t)>>)

\* C26: no single data: record aborts a streaming session: a record whose
\* payload is empty, is invalid JSON, or is valid JSON that is not an object
\* is dropped without a chunk, and the session goes on as if the record had
\* not been sent.
C26_NoRecordAbortsTheSession ==
    (Streaming /\ status = 200) =>
        /\ fault # "line"
        /\ pc = "read" => out = OneShot(WithoutDroppedRecords(text)).yields

(* The end of a stream *)

\* the upstream closed the stream and the generator ran to its end
EndedNormally ==
    /\ Streaming
    /\ pc = "done"
    /\ status = 200
    /\ fault = None
    /\ ~(call = "stream" /\ out # <<>> /\ LooksLikeError(Last(out)))

\* a complete data: line of t whose object has the key (1: conversation_id,
\* 2: id), and with a value that is not empty when a value is asked for
Observed(t, key, value) ==
    \E i \in 1..NumNewlines(t) :
        LET l == Strip(SplitLines(t)[i])
        IN  /\ IsRecordLine(l)
            /\ Strip(Tail(l)) # <<>>
            /\ LET data == json_loads(Strip(Tail(l)))
                   v == IF key = 1 THEN data.conversation_id ELSE data.id
               IN  v # NoKey /\ (value => v # "")

\* the chunks of a stream that ended normally: those of its text, then the
\* recovered text as one content chunk when an endpoint gave one
OutputWithRecovery ==
    out = OneShot(text).yields
          \o (IF fetched # <<>> /\ Last(fetched) = "assistant"
              THEN <<Chunk("content", chat_id, "answer")>> ELSE <<>>)

\* C27 (as claimed): after a stream ends normally the recovery fetch is
\* performed if and only if both a conversation_id and a chat id were observed
\* in the records; it queries /v3/chat/message/list first and
\* /v1/conversation/message/list only when the first gave no assistant text;
\* when it recovers a text exactly one more content chunk is yielded,
\* otherwise none.
C27_FetchIffBothIdsObserved ==
    EndedNormally =>
        /\ fetched # <<>> <=> (Observed(text, 1, FALSE) /\ Observed(text, 2, FALSE))
        /\ Len(fetched) <= 2
        /\ Len(fetched) = 2 <=> (fetched # <<>> /\ fetched[1] # "assistant")
        /\ OutputWithRecovery

\* C27 (amended): the recovery fetch is performed if and only if the records
\* carried both a conversation_id and a chat id whose values are not empty, in
\* one record or in two; the order of the endpoints and the one recovered
\* chunk are as claimed.
C27_RecoveryFetch ==
    EndedNormally =>
        /\ fetched # <<>> <=> (Observed(text, 1, TRUE) /\ Observed(text, 2, TRUE))
        /\ Len(fetched) <= 2
        /\ Len(fetched) = 2 <=> (fetched # <<>> /\ fetched[1] # "assistant")
        /\ OutputWithRecovery

\* the two ids came in two records; the first endpoint had no assistant
\* message, the second gave the text
C27_Witness ==
    /\ EndedNormally
    /\ Records(text) = <<<<JConversation>>, <<JChat>>, <<JCompleted>>>>
    /\ fetched = <<"no_assistant", "assistant">>
    /\ out = <<Chunk("start", "coze-unknown", ""), Chunk("stop", "coze-unknown", ""),
               Chunk("content", "k1", "answer")>>

\* C28: a failure of the recovery fetch (non-200, timeout or another
\* exception, no assistant message, at either endpoint) is not fatal: no error
\* payload is yielded for it and the output is exactly the chunks the stream
\* gave without recovery.
C28_FetchFailureIsNotFatal ==
    (Streaming /\ pc = "done" /\ fetched # <<>> /\ Last(fetched) # "assistant") =>
        /\ fault = None
        /\ out = OneShot(text).yields
        /\ \A i \in DOMAIN out : out[i].type \notin {"timeout_error", "internal_error"}

\* the first endpoint timed out, the second answered 500, after two chunks
C28_Witness ==
    /\ Streaming
    /\ pc = "done"
    /\ fetched = <<"timeout", "non200">>
    /\ Len(out) = 2

\* C29: at the end of a stream a last record left in the buffer without a
\* terminating newline is still processed: the chunks are those of the same
\* text with the newline.
C29_LastRecordIsProcessed ==
    (EndedNormally /\ fetched = <<>> /\ IsRecordLine(Strip(LastLine(text)))) =>
        LET ref == OneShot(Append(text, "\n"))
        IN  ~ref.raised => out = ref.yields

====
